---- MODULE Spec2Model ----
(***************************************************************************)
(* Model of the scene geometry compiler of vibe-scene-two                  *)
(* (scripts/services/scene-builder.js): the wall-door splitter             *)
(* _splitWallForDoors with its helpers, and the compilation                *)
(* _addElementsFromSvgAndState that turns a vector layout plus room        *)
(* metadata into wall, light and note records handed to the host.          *)
(*                                                                         *)
(* Numbers.  Coordinates that enter the splitter are integers in every     *)
(* input the model draws.  Everything the splitter computes from them      *)
(* (projection parameters, interpolated coordinates) is an exact rational  *)
(* <<n, d>> in lowest terms with d > 0, so equality of values is equality  *)
(* of numbers and the 0.001 / 0.01 thresholds are compared exactly.        *)
(***************************************************************************)
EXTENDS Integers, Sequences, FiniteSets, TLC

VARIABLES
    \* ---- one call of _splitWallForDoors (SplitSpec)
    sPc,          \* "call" before the call, "ret" after it returned, "off"
    sWall,        \* the wall argument [x1, y1, x2, y2]
    sDoors,       \* the doors argument, a sequence of door records
    sOverlaps,    \* the local overlaps, as pushed by the collection loop
    sMerged,      \* the local merged
    sResult,      \* the returned array of sub-segments
    \* ---- invocations of _addElementsFromSvgAndState, one per run
    input,          \* the arguments: state.svg, state.outline, state.options,
                    \* targetW, targetH and scene.dimensions
    pc,             \* the position of the invocation
    doorSegments,   \* local doorSegments
    wallsData,      \* local wallsData
    lightsData,     \* local lightsData
    journalEntries, \* local journalEntries
    notesData,      \* local notesData
    roomIndex,      \* local roomIndex, the cursor of the positional fallback
    ei,             \* index of the next element in the current forEach
    ji,             \* index of the next jeData in the step 3 loop
    folder,         \* local folder (its id), 0 before Folder.create
    journals,       \* the ids of local journal, one per iteration of the
                    \* step 3 loop so far; 0 where the host returned nothing
    \* ---- the host
    hostWalls,      \* Wall documents embedded in the run's scene
    hostLights,     \* AmbientLight documents embedded in the run's scene
    hostNotes,      \* Note documents embedded in the run's scene
    hostJournals,   \* the JournalEntry documents created, in creation order
    hostFolders,    \* the Folder documents created, in creation order
    \* ---- one shape element turned into its edge list (EdgeSpec)
    nPc,          \* "call" before the edges are built, "loop" inside the
                  \* while loop of _pathToEdges, "ret" after, "off"
    nShape,       \* the element
    nEdges,       \* the edges array built for it, empty where it is skipped
    nCentre,      \* [cx, cy] handed to processRoom, empty where it is skipped
    nTokens,      \* _pathToEdges: tokens
    nSt,          \* _pathToEdges: i, cx, cy, startX, startY and edges
    \* ---- one call of InpaintingPipeline.generateImage (PaintSpec)
    gPc,          \* "call" before the call, the awaited call it is suspended
                  \* at ("base", "mask", "inpaint", "validate"), "done" after
                  \* it returned, "failed" after it threw, "off"
    gState,       \* this.state: outline, svg, layoutImageBuffer, imageBuffer
    gI,           \* local i of the room loop
    gAttempt,     \* local attempt
    gSuccess,     \* local roomSuccess
    gImage,       \* local currentImage
    gMask,        \* local mask
    gCandidate,   \* local candidateImage
    gLog          \* the console lines of the room loop, in order

splitVars == <<sPc, sWall, sDoors, sOverlaps, sMerged, sResult>>

localVars == <<doorSegments, wallsData, lightsData, journalEntries, notesData,
               roomIndex, ei, ji, folder, journals>>

hostVars == <<hostWalls, hostLights, hostNotes, hostJournals, hostFolders>>

compileVars == <<input, pc, localVars, hostVars>>

edgeVars == <<nPc, nShape, nEdges, nCentre, nTokens, nSt>>

paintVars == <<gPc, gState, gI, gAttempt, gSuccess, gImage, gMask, gCandidate, gLog>>

vars == <<splitVars, compileVars, edgeVars, paintVars>>

Runs == {1, 2}

-----------------------------------------------------------------------------
(* Exact rationals *)

Abs(n) == IF n < 0 THEN -n ELSE n

\* Op(a) and Op(a, b), the arguments being evaluated once, so that the
\* arithmetic stays cheap where a step is evaluated under ENABLED
Once(Op(_), a) == CHOOSE r \in { Op(x) : x \in {a} } : TRUE
Once2(Op(_, _), a, b) == CHOOSE r \in { Op(p[1], p[2]) : p \in {<<a, b>>} } : TRUE

RECURSIVE Gcd(_, _)
Gcd(a, b) == Once2(LAMBDA x, y : IF y = 0 THEN x ELSE Gcd(y, x % y), a, b)

\* n / d in lowest terms, d # 0
Frac(n, d) ==
    Once2(LAMBDA x, y : Once(LAMBDA g : IF y < 0 THEN <<(-x) \div g, (-y) \div g>>
                                       ELSE <<x \div g, y \div g>>,
                             Gcd(Abs(x), Abs(y))),
          n, d)

Q(i) == <<i, 1>>

RLt(a, b) == a[1] * b[2] < b[1] * a[2]
RLe(a, b) == a[1] * b[2] <= b[1] * a[2]
RAdd(a, b) == Once2(LAMBDA x, y : Frac(x[1] * y[2] + y[1] * x[2], x[2] * y[2]), a, b)
RSub(a, b) == Once2(LAMBDA x, y : Frac(x[1] * y[2] - y[1] * x[2], x[2] * y[2]), a, b)
RMax(a, b) == IF RLt(a, b) THEN b ELSE a
RMin(a, b) == IF RLt(b, a) THEN b ELSE a
RMul(a, b) == Once2(LAMBDA x, y : Frac(x[1] * y[1], x[2] * y[2]), a, b)
RDiv(a, b) == Once2(LAMBDA x, y : Frac(x[1] * y[2], x[2] * y[1]), a, b)

\* floor(sqrt(n)) for n >= 0, by bisection on [lo, hi)
RECURSIVE SqrtIn(_, _, _)
SqrtIn(n, lo, hi) ==
    IF hi - lo <= 1 THEN lo
    ELSE LET mid == (lo + hi) \div 2
         IN  IF mid * mid <= n THEN SqrtIn(n, mid, hi) ELSE SqrtIn(n, lo, mid)

ISqrt(n) == SqrtIn(n, 0, 46340)

-----------------------------------------------------------------------------
(* Geometry helpers *)

\* tol = 6 of _splitWallForDoors, the value processRoom's call uses
Tol == 6
\* the merge and gap threshold 0.001
MergeEps == <<1, 1000>>

\* PointOnSegment without the test of the projection
PointNearLine(px, py, ax, ay, bx, by, tol) ==
    LET len2 == (bx - ax) * (bx - ax) + (by - ay) * (by - ay)
        c    == Abs((px - ax) * (by - ay) - (py - ay) * (bx - ax))
    IN  IF 100 * len2 < 1 THEN FALSE
        ELSE c <= ISqrt(tol * tol * len2)

\* _pointOnSegment.  lenAB = sqrt(len2) is not computed: lenAB < 0.1 is
\* len2 < 0.01, and |c| / lenAB > tol is c^2 > tol^2 * len2, that is
\* |c| > floor(sqrt(tol^2 * len2)) for an integer c.
PointOnSegment(px, py, ax, ay, bx, by, tol) ==
    LET len2 == (bx - ax) * (bx - ax) + (by - ay) * (by - ay)
        c    == Abs((px - ax) * (by - ay) - (py - ay) * (bx - ax))
        dot  == (px - ax) * (bx - ax) + (py - ay) * (by - ay)
    IN  IF 100 * len2 < 1 THEN FALSE
        ELSE IF c > ISqrt(tol * tol * len2) THEN FALSE
        ELSE 100 * dot >= -len2 /\ 100 * dot <= 101 * len2

\* _projectParam
ProjectParam(px, py, ax, ay, bx, by) ==
    LET dx == bx - ax
        dy == by - ay
        len2 == dx * dx + dy * dy
    IN  IF 100 * len2 < 1 THEN Q(0)
        ELSE Frac((px - ax) * dx + (py - ay) * dy, len2)

\* DoorOnWall with || in place of &&
DoorOnWallEither(wall, door, tol) ==
    \/ PointOnSegment(door.c[1], door.c[2], wall[1], wall[2], wall[3], wall[4], tol)
    \/ PointOnSegment(door.c[3], door.c[4], wall[1], wall[2], wall[3], wall[4], tol)

\* the test of one door against the wall (loop body, the if's condition)
DoorOnWall(wall, door, tol) ==
    /\ PointOnSegment(door.c[1], door.c[2], wall[1], wall[2], wall[3], wall[4], tol)
    /\ PointOnSegment(door.c[3], door.c[4], wall[1], wall[2], wall[3], wall[4], tol)

\* the record pushed for a door that lies on the wall
DoorRange(wall, door) ==
    LET p1 == ProjectParam(door.c[1], door.c[2], wall[1], wall[2], wall[3], wall[4])
        p2 == ProjectParam(door.c[3], door.c[4], wall[1], wall[2], wall[3], wall[4])
        t1 == IF RLt(p2, p1) THEN p2 ELSE p1
        t2 == IF RLt(p2, p1) THEN p1 ELSE p2
    IN  [t1 |-> RMax(Q(0), t1), t2 |-> RMin(Q(1), t2)]

\* the collection loop: overlaps after all doors were visited
RECURSIVE CollectOverlaps(_, _, _)
CollectOverlaps(wall, doors, tol) ==
    IF doors = <<>> THEN <<>>
    ELSE LET n == Len(doors)
             before == CollectOverlaps(wall, SubSeq(doors, 1, n - 1), tol)
         IN  IF DoorOnWall(wall, doors[n], tol)
             THEN Append(before, DoorRange(wall, doors[n]))
             ELSE before

\* overlaps.sort((a, b) => a.t1 - b.t1): stable, ascending t1
RECURSIVE InsertByT1(_, _)
InsertByT1(sorted, o) ==
    IF sorted = <<>> THEN <<o>>
    ELSE LET n == Len(sorted)
         IN  IF RLt(o.t1, sorted[n].t1)
             THEN Append(InsertByT1(SubSeq(sorted, 1, n - 1), o), sorted[n])
             ELSE Append(sorted, o)

RECURSIVE SortByT1(_)
SortByT1(s) ==
    IF s = <<>> THEN <<>>
    ELSE InsertByT1(SortByT1(SubSeq(s, 1, Len(s) - 1)), s[Len(s)])

\* MergeStep taking the later range's t2 instead of the larger t2
MergeStepKeepLast(merged, o) ==
    LET m == Len(merged)
        last == merged[m]
    IN  IF RLe(o.t1, RAdd(last.t2, MergeEps))
        THEN [merged EXCEPT ![m] = [last EXCEPT !.t2 = o.t2]]
        ELSE Append(merged, o)

\* MergeStep with 0.01 in place of 0.001
MergeStepWide(merged, o) ==
    LET m == Len(merged)
        last == merged[m]
    IN  IF RLe(o.t1, RAdd(last.t2, <<1, 100>>))
        THEN [merged EXCEPT ![m] = [last EXCEPT !.t2 = RMax(last.t2, o.t2)]]
        ELSE Append(merged, o)

\* one iteration of the merge loop
MergeStep(merged, o) ==
    LET m == Len(merged)
        last == merged[m]
    IN  IF RLe(o.t1, RAdd(last.t2, MergeEps))
        THEN [merged EXCEPT ![m] = [last EXCEPT !.t2 = RMax(last.t2, o.t2)]]
        ELSE Append(merged, o)

\* the merge loop over a sorted, non-empty overlaps
RECURSIVE MergeOverlaps(_)
MergeOverlaps(sorted) ==
    IF Len(sorted) = 1 THEN <<sorted[1]>>
    ELSE MergeStep(MergeOverlaps(SubSeq(sorted, 1, Len(sorted) - 1)),
                   sorted[Len(sorted)])

\* lerp(t) = [ax + dx * t, ay + dy * t]
Lerp(wall, t) ==
    <<Frac(wall[1] * t[2] + (wall[3] - wall[1]) * t[1], t[2]),
      Frac(wall[2] * t[2] + (wall[4] - wall[2]) * t[1], t[2])>>

\* the walk over merged: [result, cursor] after the first k gaps
RECURSIVE WalkGaps(_, _, _)
WalkGaps(wall, merged, k) ==
    IF k = 0 THEN [result |-> <<>>, cursor |-> Q(0)]
    ELSE LET prev == WalkGaps(wall, merged, k - 1)
             gap  == merged[k]
             s    == Lerp(wall, prev.cursor)
             e    == Lerp(wall, gap.t1)
         IN  [result |-> IF RLt(RAdd(prev.cursor, MergeEps), gap.t1)
                         THEN Append(prev.result, [c |-> <<s[1], s[2], e[1], e[2]>>])
                         ELSE prev.result,
              cursor |-> gap.t2]

\* the walk and the trailing sub-segment
BuildSubSegments(wall, merged) ==
    LET w == WalkGaps(wall, merged, Len(merged))
        s == Lerp(wall, w.cursor)
    IN  IF RLt(w.cursor, RSub(Q(1), MergeEps))
        THEN Append(w.result, [c |-> <<s[1], s[2], Q(wall[3]), Q(wall[4])>>])
        ELSE w.result

\* [{ c: wall }]
WholeWall(wall) == <<[c |-> <<Q(wall[1]), Q(wall[2]), Q(wall[3]), Q(wall[4])>>]>>

\* _splitWallForDoors
SplitWallForDoors(wall, doors, tol) ==
    LET overlaps == CollectOverlaps(wall, doors, tol)
    IN  IF Len(overlaps) = 0 THEN WholeWall(wall)
        ELSE BuildSubSegments(wall, MergeOverlaps(SortByT1(overlaps)))

-----------------------------------------------------------------------------
(* Numbers read from text.  An attribute value is a sequence of one-character  *)
(* strings.  NaN is the pair <<0, 0>>; the F operators propagate it as the     *)
(* arithmetic of the code does, and every comparison with it is false.         *)

NaN == <<0, 0>>
IsNaN(a) == a[2] = 0
FAdd(a, b) == Once2(LAMBDA x, y : IF IsNaN(x) \/ IsNaN(y) THEN NaN ELSE RAdd(x, y), a, b)
FSub(a, b) == Once2(LAMBDA x, y : IF IsNaN(x) \/ IsNaN(y) THEN NaN ELSE RSub(x, y), a, b)
FMul(a, b) == Once2(LAMBDA x, y : IF IsNaN(x) \/ IsNaN(y) THEN NaN ELSE RMul(x, y), a, b)
FDiv(a, b) ==
    Once2(LAMBDA x, y : IF IsNaN(x) \/ IsNaN(y) \/ y[1] = 0 THEN NaN ELSE RDiv(x, y), a, b)

Digits == <<"0", "1", "2", "3", "4", "5", "6", "7", "8", "9">>
IsDigit(c) == \E k \in DOMAIN Digits : Digits[k] = c
DigitVal(c) == (CHOOSE k \in DOMAIN Digits : Digits[k] = c) - 1

RECURSIVE DigitsVal(_)
DigitsVal(ds) ==
    Once(LAMBDA t : IF t = <<>> THEN 0
                    ELSE 10 * DigitsVal(SubSeq(t, 1, Len(t) - 1)) + DigitVal(t[Len(t)]),
         ds)

RECURSIVE Pow10(_)
Pow10(k) == IF k = 0 THEN 1 ELSE 10 * Pow10(k - 1)

\* the value of a decimal literal: an optional sign, digits, an optional
\* point and digits, with a digit somewhere; NaN for any other text.
\* parseFloat and Number agree on the texts that reach them here: the
\* tokens of the path regex, and the pieces of a points attribute.
DecimalValue(text) ==
    LET signed == text # <<>> /\ text[1] \in {"+", "-"}
        body == IF signed THEN Tail(text) ELSE text
        dots == { k \in DOMAIN body : body[k] = "." }
        dot  == IF dots = {} THEN Len(body) + 1 ELSE CHOOSE k \in dots : TRUE
        ip   == SubSeq(body, 1, dot - 1)
        fp   == SubSeq(body, dot + 1, Len(body))
        ok   == /\ Cardinality(dots) <= 1
                /\ \A k \in DOMAIN body : body[k] = "." \/ IsDigit(body[k])
                /\ Len(ip) + Len(fp) >= 1
        mag  == Frac(DigitsVal(ip) * Pow10(Len(fp)) + DigitsVal(fp), Pow10(Len(fp)))
    IN  IF ~ok THEN NaN
        ELSE IF signed /\ text[1] = "-" THEN <<-mag[1], mag[2]>> ELSE mag

\* parseFloat(token)
ParseFloat(text) == DecimalValue(text)

\* Number(piece): the empty string is 0
NumberOf(text) == IF text = <<>> THEN Q(0) ELSE DecimalValue(text)

\* HypotOver with >= in place of >
HypotAtLeast(dx, dy, limit) ==
    IF IsNaN(dx) \/ IsNaN(dy) THEN FALSE
    ELSE RLe(RMul(limit, limit), RAdd(RMul(dx, dx), RMul(dy, dy)))

\* Math.hypot(dx, dy) > limit, for a rational limit >= 0
HypotOver(dx, dy, limit) ==
    IF IsNaN(dx) \/ IsNaN(dy) THEN FALSE
    ELSE RLt(RMul(limit, limit), RAdd(RMul(dx, dx), RMul(dy, dy)))

\* Math.hypot(dx, dy): exact where the root is rational, otherwise rounded
\* down to two decimals
Hypot(dx, dy) ==
    IF IsNaN(dx) \/ IsNaN(dy) THEN NaN
    ELSE LET q == RAdd(RMul(dx, dx), RMul(dy, dy))
             rn == ISqrt(q[1])
             rd == ISqrt(q[2])
         IN  IF rn * rn = q[1] /\ rd * rd = q[2] THEN Frac(rn, rd)
             ELSE Frac(ISqrt((q[1] * 10000) \div q[2]), 100)

-----------------------------------------------------------------------------
(* The shape normalisers *)

\* cos(2 * PI * i / 24) and sin(2 * PI * i / 24) in hundredths, i in 0..24
CosTab ==
    << 100, 97, 87, 71, 50, 26, 0, -26, -50, -71, -87, -97, -100,
       -97, -87, -71, -50, -26, 0, 26, 50, 71, 87, 97, 100 >>

CosOf(i) == <<CosTab[i + 1], 100>>
SinOf(i) == <<CosTab[((i + 18) % 24) + 1], 100>>

\* the largest power of two not above n, n >= 1
RECURSIVE Pow2Floor(_)
Pow2Floor(n) == IF n < 2 THEN 1 ELSE 2 * Pow2Floor(n \div 2)

\* The closing point of the tessellation.  The last edge ends at the angle
\* (2 * PI * 24) / 24 = 2 * PI, where Math.cos is exactly 1 and Math.sin is
\* -2.4492935982947064e-16 = -1.10306 * 2^-52, not 0.  cy + ry * sin is
\* rounded to a double: the product is absorbed, and the sum is cy, exactly
\* when it is below half the spacing of the doubles at cy.
ClosingAbsorbed(cy, ry) ==
    IF ry = 0 THEN TRUE
    ELSE IF cy = 0 THEN FALSE
    ELSE LET p == Pow2Floor(Abs(cy))
         IN  IF cy > 0 /\ p = cy THEN 4412 * Abs(ry) < 1000 * p
             ELSE 2206 * Abs(ry) < 1000 * p

\* a coordinate cy + ry * sin(2 * PI) as computed: the rational, and a third
\* component, the sign of what the rounding left, where it is not absorbed
ClosingY(cy, ry) ==
    IF ClosingAbsorbed(cy, ry) THEN Q(cy)
    ELSE <<cy, 1, IF ry > 0 THEN -1 ELSE 1>>

\* _circleToEdges(cx, cy, rx, ry, segments) for segments = 24 and whole
\* cx, cy, rx, ry.  The coordinates are on the grid of the table; the
\* closing point carries what the rounding left.
CircleToEdges(cx, cy, rx, ry, segments) ==
    [k \in 1..segments |->
        LET i == k - 1
        IN  << RAdd(Q(cx), RMul(Q(rx), CosOf(i))),
               RAdd(Q(cy), RMul(Q(ry), SinOf(i))),
               RAdd(Q(cx), RMul(Q(rx), CosOf(i + 1))),
               IF i + 1 = segments THEN ClosingY(cy, ry)
               ELSE RAdd(Q(cy), RMul(Q(ry), SinOf(i + 1))) >>]

\* pointsAttr.trim(), the white space being the blank
RECURSIVE TrimLeft(_)
TrimLeft(chars) ==
    IF chars # <<>> /\ chars[1] = " " THEN TrimLeft(Tail(chars)) ELSE chars

RECURSIVE TrimRight(_)
TrimRight(chars) ==
    IF chars # <<>> /\ chars[Len(chars)] = " "
    THEN TrimRight(SubSeq(chars, 1, Len(chars) - 1)) ELSE chars

Trim(chars) == TrimRight(TrimLeft(chars))

IsSep(c) == c \in {" ", ","}

\* the first position at or after p that holds no separator
RECURSIVE SkipSeps(_, _)
SkipSeps(chars, p) ==
    IF p \in DOMAIN chars /\ IsSep(chars[p]) THEN SkipSeps(chars, p + 1) ELSE p

\* split(/[\s,]+/) from position p on, cur being the piece under way
RECURSIVE SplitFrom(_, _, _)
SplitFrom(chars, p, cur) ==
    IF p > Len(chars) THEN <<cur>>
    ELSE IF IsSep(chars[p]) THEN <<cur>> \o SplitFrom(chars, SkipSeps(chars, p), <<>>)
    ELSE SplitFrom(chars, p + 1, Append(cur, chars[p]))

\* pointsAttr.trim().split(/[\s,]+/).map(Number)
PointNums(pointsAttr) ==
    LET pieces == SplitFrom(Trim(pointsAttr), 1, <<>>)
    IN  [k \in DOMAIN pieces |-> NumberOf(pieces[k])]

\* the pairs for (i = 0; i < nums.length - 1; i += 2) visits
PointPairs(nums) ==
    [k \in 1..(Len(nums) \div 2) |-> <<nums[2 * k - 1], nums[2 * k]>>]

\* PolygonToEdges without the edge from the last point to the first
PolygonToEdgesOpen(pointsAttr) ==
    LET pts == PointPairs(PointNums(pointsAttr))
        n == Len(pts)
    IN  IF n < 3 THEN <<>>
        ELSE [k \in 1..(n - 1) |-> <<pts[k][1], pts[k][2], pts[k + 1][1], pts[k + 1][2]>>]

\* _polygonToEdges
PolygonToEdges(pointsAttr) ==
    LET pts == PointPairs(PointNums(pointsAttr))
        n == Len(pts)
    IN  IF n < 3 THEN <<>>
        ELSE [k \in 1..n |->
                 LET next == pts[(k % n) + 1]
                 IN  <<pts[k][1], pts[k][2], next[1], next[2]>>]

CmdLetters ==
    { "M", "L", "A", "Z", "H", "V", "C", "S", "Q",
      "m", "l", "a", "h", "v", "c", "s", "q", "z" }

\* the number of digits from position p on
RECURSIVE DigitRun(_, _)
DigitRun(chars, p) ==
    IF p \in DOMAIN chars /\ IsDigit(chars[p]) THEN 1 + DigitRun(chars, p + 1) ELSE 0

\* NumberAt matching [-+]?[0-9]+ only
NumberAtWhole(chars, p) ==
    LET s  == IF chars[p] \in {"-", "+"} THEN 1 ELSE 0
        d1 == DigitRun(chars, p + s)
    IN  IF d1 > 0 THEN s + d1 ELSE 0

\* the length of the match of [-+]?[0-9]*\.?[0-9]+ at position p, 0 if none
NumberAt(chars, p) ==
    LET s  == IF chars[p] \in {"-", "+"} THEN 1 ELSE 0
        q  == p + s
        d1 == DigitRun(chars, q)
        d2 == IF q + d1 \in DOMAIN chars /\ chars[q + d1] = "."
              THEN DigitRun(chars, q + d1 + 1) ELSE 0
    IN  IF d2 > 0 THEN s + d1 + 1 + d2
        ELSE IF d1 > 0 THEN s + d1
        ELSE 0

\* d.match(/[MLAZHVCSQmlahvcsqz]|[-+]?[0-9]*\.?[0-9]+/g) from position p on
RECURSIVE MatchTokens(_, _)
MatchTokens(chars, p) ==
    IF p > Len(chars) THEN <<>>
    ELSE IF chars[p] \in CmdLetters THEN <<<<chars[p]>>>> \o MatchTokens(chars, p + 1)
    ELSE LET n == NumberAt(chars, p)
         IN  IF n > 0 THEN <<SubSeq(chars, p, p + n - 1)>> \o MatchTokens(chars, p + n)
             ELSE MatchTokens(chars, p + 1)

\* num() at offset k after the command: parseFloat(tokens[i]), NaN past the end
NumAt(tokens, i) == IF i \in DOMAIN tokens THEN ParseFloat(tokens[i]) ELSE NaN

\* ArcEdges with 4 steps
ArcEdgesFour(cx, cy, ex, ey) ==
    [s \in 1..4 |->
        << FAdd(cx, FMul(FSub(ex, cx), <<s - 1, 4>>)),
           FAdd(cy, FMul(FSub(ey, cy), <<s - 1, 4>>)),
           FAdd(cx, FMul(FSub(ex, cx), <<s, 4>>)),
           FAdd(cy, FMul(FSub(ey, cy), <<s, 4>>)) >>]

\* the 8 sub-segments that stand for an arc from (cx, cy) to (ex, ey)
ArcEdges(cx, cy, ex, ey) ==
    [s \in 1..8 |->
        << FAdd(cx, FMul(FSub(ex, cx), <<s - 1, 8>>)),
           FAdd(cy, FMul(FSub(ey, cy), <<s - 1, 8>>)),
           FAdd(cx, FMul(FSub(ex, cx), <<s, 8>>)),
           FAdd(cy, FMul(FSub(ey, cy), <<s, 8>>)) >>]

\* SkipToken leaving the token where it is
SkipTokenStay(st) == st

\* the default case: the token was read by tokens[i++] and nothing else is done
SkipToken(st) == [st EXCEPT !.i = @ + 1]

\* one turn of the while loop of _pathToEdges: the command at st.i
PathStep(tokens, st) ==
    LET cmd == tokens[st.i]
        n(k) == NumAt(tokens, st.i + k)
    IN  CASE cmd = <<"M">> ->
               [st EXCEPT !.i = @ + 3, !.cx = n(1), !.cy = n(2),
                          !.startX = n(1), !.startY = n(2)]
          [] cmd = <<"m">> ->
               [st EXCEPT !.i = @ + 3, !.cx = FAdd(st.cx, n(1)), !.cy = FAdd(st.cy, n(2)),
                          !.startX = FAdd(st.cx, n(1)), !.startY = FAdd(st.cy, n(2))]
          [] cmd = <<"L">> ->
               [st EXCEPT !.i = @ + 3, !.cx = n(1), !.cy = n(2),
                          !.edges = Append(@, <<st.cx, st.cy, n(1), n(2)>>)]
          [] cmd = <<"l">> ->
               [st EXCEPT !.i = @ + 3, !.cx = FAdd(st.cx, n(1)), !.cy = FAdd(st.cy, n(2)),
                          !.edges = Append(@, <<st.cx, st.cy,
                                                FAdd(st.cx, n(1)), FAdd(st.cy, n(2))>>)]
          [] cmd = <<"H">> ->
               [st EXCEPT !.i = @ + 2, !.cx = n(1),
                          !.edges = Append(@, <<st.cx, st.cy, n(1), st.cy>>)]
          [] cmd = <<"h">> ->
               [st EXCEPT !.i = @ + 2, !.cx = FAdd(st.cx, n(1)),
                          !.edges = Append(@, <<st.cx, st.cy, FAdd(st.cx, n(1)), st.cy>>)]
          [] cmd = <<"V">> ->
               [st EXCEPT !.i = @ + 2, !.cy = n(1),
                          !.edges = Append(@, <<st.cx, st.cy, st.cx, n(1)>>)]
          [] cmd = <<"v">> ->
               [st EXCEPT !.i = @ + 2, !.cy = FAdd(st.cy, n(1)),
                          !.edges = Append(@, <<st.cx, st.cy, st.cx, FAdd(st.cy, n(1))>>)]
          [] cmd = <<"A">> ->
               [st EXCEPT !.i = @ + 8, !.cx = n(6), !.cy = n(7),
                          !.edges = @ \o ArcEdges(st.cx, st.cy, n(6), n(7))]
          [] cmd = <<"a">> ->
               [st EXCEPT !.i = @ + 8, !.cx = FAdd(st.cx, n(6)), !.cy = FAdd(st.cy, n(7)),
                          !.edges = @ \o ArcEdges(st.cx, st.cy,
                                                  FAdd(st.cx, n(6)), FAdd(st.cy, n(7)))]
          [] cmd \in {<<"Z">>, <<"z">>} ->
               [st EXCEPT !.i = @ + 1, !.cx = st.startX, !.cy = st.startY,
                          !.edges = IF HypotOver(FSub(st.cx, st.startX),
                                                 FSub(st.cy, st.startY), <<1, 2>>)
                                    THEN Append(@, <<st.cx, st.cy, st.startX, st.startY>>)
                                    ELSE @]
          [] OTHER -> SkipToken(st)

\* the while loop of _pathToEdges
RECURSIVE PathRun(_, _)
PathRun(tokens, st) ==
    IF st.i > Len(tokens) THEN st.edges ELSE PathRun(tokens, PathStep(tokens, st))

\* the locals of _pathToEdges before the while loop
PathStart ==
    [i |-> 1, cx |-> Q(0), cy |-> Q(0), startX |-> Q(0), startY |-> Q(0),
     edges |-> <<>>]

\* _pathToEdges(d)
PathToEdges(d) == PathRun(MatchTokens(d, 1), PathStart)

-----------------------------------------------------------------------------
(* The layout and its attributes *)

\* getAttribute of an attribute the element does not carry
Null == "null"

\* querySelectorAll(tag): the elements of that tag, in document order
QuerySelectorAll(svg, tag) == SelectSeq(svg.children, LAMBDA el : el.tag = tag)

\* a rational as the whole number it is.  Scales and wall coordinates are
\* whole in every layout the model draws.
Whole(q) == CHOOSE n \in {q[1]} : q[2] = 1

\* viewBox.split(/[ ,]+/).map(Number)
ViewBoxParts(viewBox) ==
    LET pieces == SplitFrom(viewBox, 1, <<>>)
    IN  [k \in DOMAIN pieces |-> NumberOf(pieces[k])]

\* the coordinate scale [scaleX, scaleY]; an attribute that is absent or
\* empty is the empty text
ScaleOf(svg, targetW, targetH) ==
    IF svg.viewBox # <<>>
    THEN LET parts == ViewBoxParts(svg.viewBox)
         IN  IF Len(parts) = 4
             THEN <<Whole(FDiv(Q(targetW), FSub(parts[3], parts[1]))),
                    Whole(FDiv(Q(targetH), FSub(parts[4], parts[2])))>>
             ELSE <<1, 1>>
    ELSE <<targetW \div 1000, targetH \div 1000>>

\* the transform of the invocation: scale and the scene offset
TransformOf(in) ==
    LET sc == ScaleOf(in.svg, in.targetW, in.targetH)
    IN  [scaleX |-> sc[1], scaleY |-> sc[2], offsetX |-> in.sceneX, offsetY |-> in.sceneY]

\* ParseDoors without the zero-length test
RECURSIVE ParseDoorsKeepAll(_, _, _)
ParseDoorsKeepAll(lines, xf, n) ==
    IF n = 0 THEN <<>>
    ELSE Append(ParseDoorsKeepAll(lines, xf, n - 1),
                [c |-> << lines[n].x1 * xf.scaleX + xf.offsetX,
                          lines[n].y1 * xf.scaleY + xf.offsetY,
                          lines[n].x2 * xf.scaleX + xf.offsetX,
                          lines[n].y2 * xf.scaleY + xf.offsetY >>,
                 door |-> 1, ds |-> 0])

\* STEP 1, the body of lines.forEach: doorSegments after the first n lines
RECURSIVE ParseDoors(_, _, _)
ParseDoors(lines, xf, n) ==
    IF n = 0 THEN <<>>
    ELSE LET before == ParseDoors(lines, xf, n - 1)
             x1 == lines[n].x1 * xf.scaleX + xf.offsetX
             y1 == lines[n].y1 * xf.scaleY + xf.offsetY
             x2 == lines[n].x2 * xf.scaleX + xf.offsetX
             y2 == lines[n].y2 * xf.scaleY + xf.offsetY
         IN  IF x1 = x2 /\ y1 = y2 THEN before
             ELSE Append(before, [c |-> <<x1, y1, x2, y2>>, door |-> 1, ds |-> 0])

\* RectEdges going round the other way
RectEdgesCounter(x, y, w, h) ==
    << <<x, y, x, y + h>>,
       <<x, y + h, x + w, y + h>>,
       <<x + w, y + h, x + w, y>>,
       <<x + w, y, x, y>> >>

\* the four edges of a rectangle
RectEdges(x, y, w, h) ==
    << <<x, y, x + w, y>>,
       <<x + w, y, x + w, y + h>>,
       <<x + w, y + h, x, y + h>>,
       <<x, y + h, x, y>> >>

\* the edges with their coordinates as rationals
QEdges(edges) ==
    [k \in DOMAIN edges |->
        <<Q(edges[k][1]), Q(edges[k][2]), Q(edges[k][3]), Q(edges[k][4])>>]

\* v * scale + offset for a native coordinate v.  What the rounding left on
\* a closing point of a tessellation is below the grid and is not carried.
Scaled(v, scale, offset) ==
    IF v[2] = 1 THEN v[1] * scale + offset
    ELSE Whole(RAdd(RMul(<<v[1], v[2]>>, Q(scale)), Q(offset)))

\* RoomWalls splitting around the doors of every compilation under way
RECURSIVE RoomWallsAllDoors(_, _, _, _)
RoomWallsAllDoors(edges, xf, doors, n) ==
    IF n = 0 THEN <<>>
    ELSE LET edge == edges[n]
             scaled == << Scaled(edge[1], xf.scaleX, xf.offsetX),
                          Scaled(edge[2], xf.scaleY, xf.offsetY),
                          Scaled(edge[3], xf.scaleX, xf.offsetX),
                          Scaled(edge[4], xf.scaleY, xf.offsetY) >>
         IN  RoomWallsAllDoors(edges, xf, doors, n - 1)
               \o SplitWallForDoors(scaled, doorSegments[1] \o doorSegments[2], Tol)

\* processRoom, the wall loop: the sub-walls of the first n edges
RECURSIVE RoomWalls(_, _, _, _)
RoomWalls(edges, xf, doors, n) ==
    IF n = 0 THEN <<>>
    ELSE LET edge == edges[n]
             scaled == << Scaled(edge[1], xf.scaleX, xf.offsetX),
                          Scaled(edge[2], xf.scaleY, xf.offsetY),
                          Scaled(edge[3], xf.scaleX, xf.offsetX),
                          Scaled(edge[4], xf.scaleY, xf.offsetY) >>
         IN  RoomWalls(edges, xf, doors, n - 1) \o SplitWallForDoors(scaled, doors, Tol)

\* IsOutdoor comparing the attribute with "1" instead of "true"
IsOutdoorFlag(el) == el.outdoor = "1"

IsOutdoor(el) == el.outdoor = "true"

\* RoomLight without the scene offset
RoomLightBare(xf, cx, cy, radius) ==
    LET m == IF xf.scaleX > xf.scaleY THEN xf.scaleX ELSE xf.scaleY
        sRadius == Frac(radius[1] * m, radius[2])
    IN  [x |-> Frac(cx[1] * xf.scaleX, cx[2]),
         y |-> Frac(cy[1] * xf.scaleY, cy[2]),
         rotation |-> 0,
         config |-> [dim |-> Frac(sRadius[1] * 2, sRadius[2]), bright |-> sRadius,
                     color |-> "#ffc880", alpha |-> <<1, 5>>]]

\* the placeholder light of a room; cx, cy and radius are rationals
RoomLight(xf, cx, cy, radius) ==
    LET m == IF xf.scaleX > xf.scaleY THEN xf.scaleX ELSE xf.scaleY
        sRadius == Frac(radius[1] * m, radius[2])
    IN  [x |-> Frac(cx[1] * xf.scaleX + xf.offsetX * cx[2], cx[2]),
         y |-> Frac(cy[1] * xf.scaleY + xf.offsetY * cy[2], cy[2]),
         rotation |-> 0,
         config |-> [dim |-> Frac(sRadius[1] * 2, sRadius[2]), bright |-> sRadius,
                     color |-> "#ffc880", alpha |-> <<1, 5>>]]

\* the value of roomDef when nothing was found
Undefined == [id |-> Null, name |-> Null]

\* outline.rooms.find(r => String(r.id) === String(roomId))
FindRoom(rooms, roomId) ==
    IF \E i \in DOMAIN rooms : rooms[i].id = roomId
    THEN rooms[CHOOSE i \in DOMAIN rooms :
                   /\ rooms[i].id = roomId
                   /\ \A j \in DOMAIN rooms : rooms[j].id = roomId => i <= j]
    ELSE Undefined

\* MatchRoom trying the positional fallback before the identifier
MatchRoomPositional(el, rooms, idx) ==
    IF idx + 1 \in DOMAIN rooms
    THEN [roomDef |-> rooms[idx + 1], roomIndex |-> idx + 1]
    ELSE [roomDef |-> IF el.roomId # Null /\ el.roomId # ""
                      THEN FindRoom(rooms, el.roomId) ELSE Undefined,
          roomIndex |-> idx]

\* MatchRoom with one fallback cursor for all compilations
MatchRoomShared(el, rooms, idx) ==
    LET roomId == el.roomId
        byId == IF roomId # Null /\ roomId # "" THEN FindRoom(rooms, roomId) ELSE Undefined
        shared == roomIndex[1] + roomIndex[2]
    IN  IF byId = Undefined /\ shared + 1 \in DOMAIN rooms
        THEN [roomDef |-> rooms[shared + 1], roomIndex |-> idx + 1]
        ELSE [roomDef |-> byId, roomIndex |-> idx]

\* MatchRoom whose fallback starts over at the first entry when the cursor
\* has passed the last one
MatchRoomWrap(el, rooms, idx) ==
    LET roomId == el.roomId
        byId == IF roomId # Null /\ roomId # "" THEN FindRoom(rooms, roomId) ELSE Undefined
    IN  IF byId # Undefined THEN [roomDef |-> byId, roomIndex |-> idx]
        ELSE IF idx + 1 \in DOMAIN rooms
             THEN [roomDef |-> rooms[idx + 1], roomIndex |-> idx + 1]
             ELSE IF rooms # <<>> THEN [roomDef |-> rooms[1], roomIndex |-> 1]
                  ELSE [roomDef |-> Undefined, roomIndex |-> idx]

\* processRoom, "Match with outline room": [roomDef, roomIndex] afterwards
MatchRoom(el, rooms, idx) ==
    LET roomId == el.roomId
        byId == IF roomId # Null /\ roomId # "" THEN FindRoom(rooms, roomId) ELSE Undefined
    IN  IF byId = Undefined /\ idx + 1 \in DOMAIN rooms
        THEN [roomDef |-> rooms[idx + 1], roomIndex |-> idx + 1]
        ELSE [roomDef |-> byId, roomIndex |-> idx]

\* _buildJournalHtml, for a room with a name and no optional field
BuildJournalHtml(roomDef) == <<"h2", roomDef.name, "standard">>

\* the journal entry data pushed for a matched room
JournalData(roomDef, light) ==
    [name |-> roomDef.name,
     pages |-> <<[name |-> roomDef.name, type |-> "text",
                  content |-> BuildJournalHtml(roomDef)]>>,
     c |-> <<light.x, light.y>>]

\* the note pushed for a created journal
NoteData(coords, journal) ==
    [x |-> coords[1], y |-> coords[2], entryId |-> journal.id,
     icon |-> "icons/svg/book.svg", text |-> journal.name]

\* WallsWanted ignoring the option
WallsWantedAlways(in) == TRUE

\* state.options?.generateWalls !== false
WallsWanted(in) == in.options.generateWalls # FALSE

-----------------------------------------------------------------------------
(* _addElementsFromSvgAndState, step by step *)

Rects(r) == QuerySelectorAll(input[r].svg, "rect")

\* the elements visited were a single loop to go through them in document
\* order
AllShapesInDocumentOrder(r) ==
    SelectSeq(input[r].svg.children,
              LAMBDA el : el.tag \in {"rect", "circle", "ellipse", "polygon", "path"})

\* the elements the five forEach loops visit, in the order they visit them;
\* ei is the position in it of the element the next iteration visits
AllShapes(r) ==
    Rects(r) \o QuerySelectorAll(input[r].svg, "circle")
             \o QuerySelectorAll(input[r].svg, "ellipse")
             \o QuerySelectorAll(input[r].svg, "polygon")
             \o QuerySelectorAll(input[r].svg, "path")

\* where the invocation goes once the shape loops are over
AfterShapes(entries) == IF Len(entries) > 0 THEN "folder" ELSE "walls"

\* the forEach an element belongs to
LoopOf(el) ==
    CASE el.tag = "rect" -> "rects"
      [] el.tag = "circle" -> "circles"
      [] el.tag = "ellipse" -> "ellipses"
      [] el.tag = "polygon" -> "polygons"
      [] el.tag = "path" -> "paths"

\* the position after k elements were visited
AfterElement(r, k, entries) ==
    IF k < Len(AllShapes(r)) THEN LoopOf(AllShapes(r)[k + 1]) ELSE AfterShapes(entries)

\* tagName.toLowerCase() of the root elements the model draws
ToLowerCase(tag) == IF tag = "SVG" THEN "svg" ELSE tag

\* Begin without the root check
BeginAnyRoot(r) ==
    /\ pc[r] = "start"
    /\ LET lines == QuerySelectorAll(input[r].svg, "line")
           doors == ParseDoors(lines, TransformOf(input[r]), Len(lines))
       IN  /\ doorSegments' = [doorSegments EXCEPT ![r] = doors]
           /\ wallsData' = [wallsData EXCEPT ![r] = doors]
           /\ pc' = [pc EXCEPT ![r] = AfterElement(r, 0, journalEntries[r])]
    /\ UNCHANGED <<input, lightsData, journalEntries, notesData, roomIndex, ei, ji,
                   folder, journals, hostVars, splitVars, edgeVars, paintVars>>

\* the root check, the scale and STEP 1
Begin(r) ==
    /\ pc[r] = "start"
    /\ IF ToLowerCase(input[r].svg.tag) # "svg"
       THEN /\ pc' = [pc EXCEPT ![r] = "done"]
            /\ UNCHANGED <<doorSegments, wallsData>>
       ELSE LET lines == QuerySelectorAll(input[r].svg, "line")
                doors == ParseDoors(lines, TransformOf(input[r]), Len(lines))
            IN  /\ doorSegments' = [doorSegments EXCEPT ![r] = doors]
                /\ wallsData' = [wallsData EXCEPT ![r] = doors]
                /\ pc' = [pc EXCEPT ![r] = AfterElement(r, 0, journalEntries[r])]
    /\ UNCHANGED <<input, lightsData, journalEntries, notesData, roomIndex, ei, ji,
                   folder, journals, hostVars, splitVars, edgeVars, paintVars>>

\* processRoom(el, edges, cx, cy, radius): what it leaves in the locals
ProcessRoom(r, el, edges, cx, cy, radius) ==
    LET xf == TransformOf(input[r])
        light == RoomLight(xf, cx, cy, radius)
        m == MatchRoom(el, input[r].outline.rooms, roomIndex[r])
    IN  /\ wallsData' = [wallsData EXCEPT ![r] =
              IF IsOutdoor(el) THEN @
              ELSE @ \o RoomWalls(edges, xf, doorSegments[r], Len(edges))]
        /\ lightsData' = [lightsData EXCEPT ![r] = Append(@, light)]
        /\ roomIndex' = [roomIndex EXCEPT ![r] = m.roomIndex]
        /\ journalEntries' = [journalEntries EXCEPT ![r] =
              IF m.roomDef # Undefined THEN Append(@, JournalData(m.roomDef, light))
              ELSE @]

\* the end of an iteration of a forEach: the next element, or the next loop
\* that has elements, or STEP 3
Visited(r) ==
    /\ ei' = [ei EXCEPT ![r] = @ + 1]
    /\ pc' = [pc EXCEPT ![r] = AfterElement(r, ei[r], journalEntries'[r])]
    /\ UNCHANGED <<input, doorSegments, notesData, ji, folder, journals, hostVars,
                   splitVars, edgeVars, paintVars>>

\* the sum of a sequence of numbers, from 0
RECURSIVE SumOf(_)
SumOf(nums) ==
    Once(LAMBDA t : IF t = <<>> THEN Q(0)
                    ELSE FAdd(SumOf(SubSeq(t, 1, Len(t) - 1)), t[Len(t)]),
         nums)

\* edges.reduce((m, e) => Math.max(m, Math.hypot(e[0] - cx, e[1] - cy)), 0)
RECURSIVE MaxDist(_, _, _)
MaxDist(edges, cx, cy) ==
    IF edges = <<>> THEN Q(0)
    ELSE LET e == edges[Len(edges)]
         IN  RMax(MaxDist(SubSeq(edges, 1, Len(edges) - 1), cx, cy),
                  Hypot(FSub(e[1], cx), FSub(e[2], cy)))

\* one iteration of the rectangles' forEach
ProcessRect(r) ==
    /\ pc[r] = "rects"
    /\ LET rect == Rects(r)[ei[r]]
           x == rect.x
           y == rect.y
           w == rect.width
           h == rect.height
       IN  IF w = 0 \/ h = 0
           THEN UNCHANGED <<wallsData, lightsData, roomIndex, journalEntries>>
           ELSE ProcessRoom(r, rect, QEdges(RectEdges(x, y, w, h)),
                            Frac(2 * x + w, 2), Frac(2 * y + h, 2),
                            Frac(IF w > h THEN w ELSE h, 2))
    /\ Visited(r)

\* ProcessCircle without the test of the radius
ProcessCircleAny(r) ==
    /\ pc[r] = "circles"
    /\ LET circle == AllShapes(r)[ei[r]]
       IN  ProcessRoom(r, circle, CircleToEdges(circle.cx, circle.cy, circle.r, circle.r, 24),
                       Q(circle.cx), Q(circle.cy), Q(circle.r))
    /\ Visited(r)

\* one iteration of the circles' forEach
ProcessCircle(r) ==
    /\ pc[r] = "circles"
    /\ LET circle == AllShapes(r)[ei[r]]
           cx == circle.cx
           cy == circle.cy
           rad == circle.r
       IN  IF rad = 0
           THEN UNCHANGED <<wallsData, lightsData, roomIndex, journalEntries>>
           ELSE ProcessRoom(r, circle, CircleToEdges(cx, cy, rad, rad, 24),
                            Q(cx), Q(cy), Q(rad))
    /\ Visited(r)

\* one iteration of the ellipses' forEach
ProcessEllipse(r) ==
    /\ pc[r] = "ellipses"
    /\ LET ellipse == AllShapes(r)[ei[r]]
           cx == ellipse.cx
           cy == ellipse.cy
           rx == ellipse.rx
           ry == ellipse.ry
       IN  IF rx = 0 \/ ry = 0
           THEN UNCHANGED <<wallsData, lightsData, roomIndex, journalEntries>>
           ELSE ProcessRoom(r, ellipse, CircleToEdges(cx, cy, rx, ry, 24),
                            Q(cx), Q(cy), Q(IF rx > ry THEN rx ELSE ry))
    /\ Visited(r)

\* the centroid the polygons' forEach computes from the points attribute
PolygonCentre(pts) ==
    LET pairs == PointPairs(PointNums(pts))
        count == Len(pairs)
    IN  << FDiv(SumOf([k \in DOMAIN pairs |-> pairs[k][1]]), Q(count)),
           FDiv(SumOf([k \in DOMAIN pairs |-> pairs[k][2]]), Q(count)) >>

\* the centroid the paths' forEach computes from the edges
PathCentre(edges) ==
    LET n == Len(edges)
    IN  << FDiv(SumOf([k \in DOMAIN edges |->
                          FDiv(FAdd(edges[k][1], edges[k][3]), Q(2))]), Q(n)),
           FDiv(SumOf([k \in DOMAIN edges |->
                          FDiv(FAdd(edges[k][2], edges[k][4]), Q(2))]), Q(n)) >>

\* one iteration of the polygons' forEach.  An attribute that is absent or
\* empty is the empty text.
ProcessPolygon(r) ==
    /\ pc[r] = "polygons"
    /\ LET poly == AllShapes(r)[ei[r]]
           pts == poly.points
       IN  \E edges \in {PolygonToEdges(pts)} :
             IF pts = <<>> \/ Len(edges) = 0
             THEN UNCHANGED <<wallsData, lightsData, roomIndex, journalEntries>>
             ELSE \E c \in {PolygonCentre(pts)} :
                    ProcessRoom(r, poly, edges, c[1], c[2], MaxDist(edges, c[1], c[2]))
    /\ Visited(r)

\* one iteration of the paths' forEach
ProcessPath(r) ==
    /\ pc[r] = "paths"
    /\ LET pathEl == AllShapes(r)[ei[r]]
           d == pathEl.d
       IN  \E edges \in {PathToEdges(d)} :
             IF d = <<>> \/ Len(edges) = 0
             THEN UNCHANGED <<wallsData, lightsData, roomIndex, journalEntries>>
             ELSE \E c \in {PathCentre(edges)} :
                    ProcessRoom(r, pathEl, edges, c[1], c[2], MaxDist(edges, c[1], c[2]))
    /\ Visited(r)

\* STEP 3, Folder.create
CreateFolder(r) ==
    /\ pc[r] = "folder"
    /\ hostFolders' = Append(hostFolders, [id |-> Len(hostFolders) + 1, run |-> r])
    /\ folder' = [folder EXCEPT ![r] = Len(hostFolders) + 1]
    /\ pc' = [pc EXCEPT ![r] = "journals"]
    /\ UNCHANGED <<input, doorSegments, wallsData, lightsData, journalEntries, notesData,
                   roomIndex, ei, ji, journals, hostWalls, hostLights, hostNotes,
                   hostJournals, splitVars, edgeVars, paintVars>>

\* STEP 3, one iteration of the journal loop; the host either creates the
\* document or returns nothing
CreateJournal(r) ==
    /\ pc[r] = "journals"
    /\ LET jeData == journalEntries[r][ji[r]]
           journal == [id |-> Len(hostJournals) + 1, name |-> jeData.name,
                       folder |-> folder[r], pages |-> jeData.pages]
       IN  \/ /\ hostJournals' = Append(hostJournals, journal)
              /\ journals' = [journals EXCEPT ![r] = Append(@, journal.id)]
              /\ notesData' = [notesData EXCEPT ![r] = Append(@, NoteData(jeData.c, journal))]
           \/ /\ journals' = [journals EXCEPT ![r] = Append(@, 0)]
              /\ UNCHANGED <<hostJournals, notesData>>
    /\ ji' = [ji EXCEPT ![r] = @ + 1]
    /\ pc' = [pc EXCEPT ![r] = IF ji[r] < Len(journalEntries[r]) THEN "journals" ELSE "walls"]
    /\ UNCHANGED <<input, doorSegments, wallsData, lightsData, journalEntries, roomIndex,
                   ei, folder, hostWalls, hostLights, hostNotes, hostFolders, splitVars, edgeVars, paintVars>>

\* STEP 4, the walls
EmbedWalls(r) ==
    /\ pc[r] = "walls"
    /\ hostWalls' = [hostWalls EXCEPT ![r] =
          IF Len(wallsData[r]) > 0 /\ WallsWanted(input[r]) THEN @ \o wallsData[r] ELSE @]
    /\ pc' = [pc EXCEPT ![r] = "lights"]
    /\ UNCHANGED <<input, localVars, hostLights, hostNotes, hostJournals, hostFolders,
                   splitVars, edgeVars, paintVars>>

\* STEP 4, the lights
EmbedLights(r) ==
    /\ pc[r] = "lights"
    /\ hostLights' = [hostLights EXCEPT ![r] = @ \o lightsData[r]]
    /\ pc' = [pc EXCEPT ![r] = "notes"]
    /\ UNCHANGED <<input, localVars, hostWalls, hostNotes, hostJournals, hostFolders,
                   splitVars, edgeVars, paintVars>>

\* STEP 4, the notes; the invocation returns
EmbedNotes(r) ==
    /\ pc[r] = "notes"
    /\ hostNotes' = [hostNotes EXCEPT ![r] = @ \o notesData[r]]
    /\ pc' = [pc EXCEPT ![r] = "done"]
    /\ UNCHANGED <<input, localVars, hostWalls, hostLights, hostJournals, hostFolders,
                   splitVars, edgeVars, paintVars>>

Next ==
    \E r \in Runs :
        \/ Begin(r)
        \/ ProcessRect(r)
        \/ ProcessCircle(r)
        \/ ProcessEllipse(r)
        \/ ProcessPolygon(r)
        \/ ProcessPath(r)
        \/ CreateFolder(r)
        \/ CreateJournal(r)
        \/ EmbedWalls(r)
        \/ EmbedLights(r)
        \/ EmbedNotes(r)

-----------------------------------------------------------------------------
(* The inputs the model draws *)

RECURSIVE SeqsUpTo(_, _)
SeqsUpTo(S, n) ==
    IF n = 0 THEN { <<>> }
    ELSE LET shorter == SeqsUpTo(S, n - 1)
         IN  shorter \cup { Append(s, x) : s \in shorter, x \in S }

MaxShapes == 2

Line(x1, y1, x2, y2) == [tag |-> "line", x1 |-> x1, y1 |-> y1, x2 |-> x2, y2 |-> y2]

Rect(x, y, w, h, roomId, outdoor) ==
    [tag |-> "rect", x |-> x, y |-> y, width |-> w, height |-> h,
     roomId |-> roomId, outdoor |-> outdoor]

\* two rooms side by side sharing the edge x = 100, and a flat rectangle
RectVariants ==
    { Rect(0, 0, 100, 100, Null, Null),
      Rect(0, 0, 100, 100, "a", Null),
      Rect(0, 0, 100, 100, "b", "true"),
      Rect(100, 0, 100, 100, Null, Null),
      Rect(100, 0, 100, 100, "b", Null),
      Rect(0, 0, 0, 50, Null, Null) }

DoorShared == Line(100, 30, 100, 70)    \* on the shared edge
DoorBottom == Line(30, 100, 70, 100)    \* on the bottom edge of the left room
DoorPoint  == Line(5, 5, 5, 5)          \* zero length

LineLists ==
    { <<>>, <<DoorShared>>, <<DoorPoint, DoorShared, DoorBottom, DoorShared>> }

RoomA  == [id |-> "a", name |-> "Hall"]
RoomA2 == [id |-> "a", name |-> "Annex"]
RoomB  == [id |-> "b", name |-> "Yard"]

Outlines ==
    { <<>>, <<RoomA>>, <<RoomB, RoomA>>, <<RoomA, RoomA2, RoomB>> }

\* the points attributes the model draws
PointsText ==
    [ Quad |->    \* "100,0 160,0 160,80 100,80": its left edge lies on x = 100
        <<"1", "0", "0", ",", "0", " ", "1", "6", "0", ",", "0", " ", "1", "6", "0", ",", "8", "0", " ", "1", "0", "0", ",", "8", "0">>,
      Two |->    \* "0,0 10,0"
        <<"0", ",", "0", " ", "1", "0", ",", "0">>,
      Triangle |->    \* "0,0 10,0 10,10"
        <<"0", ",", "0", " ", "1", "0", ",", "0", " ", "1", "0", ",", "1", "0">>,
      Padded |->    \* " 0,0  10,0, 10,10 "
        <<" ", "0", ",", "0", " ", " ", "1", "0", ",", "0", ",", " ", "1", "0", ",", "1", "0", " ">>,
      Odd |->    \* "0,0 10,0 10,10 5"
        <<"0", ",", "0", " ", "1", "0", ",", "0", " ", "1", "0", ",", "1", "0", " ", "5">>,
      Comma |->    \* "0,0 10,0 10,10,"
        <<"0", ",", "0", " ", "1", "0", ",", "0", " ", "1", "0", ",", "1", "0", ",">>,
      One |->    \* "7,7"
        <<"7", ",", "7">>,
      Decimal |->    \* "-1.5,2 4,2 4,-3.5 0,0"
        <<"-", "1", ".", "5", ",", "2", " ", "4", ",", "2", " ", "4", ",", "-", "3", ".", "5", " ", "0", ",", "0">> ]

\* the d attributes the model draws
PathText ==
    [ Quad |->    \* "M100,100 L160,100 L160,180 L100,180 Z"
        <<"M", "1", "0", "0", ",", "1", "0", "0", " ", "L", "1", "6", "0", ",", "1", "0", "0", " ", "L", "1", "6", "0", ",", "1", "8", "0", " ", "L", "1", "0", "0", ",", "1", "8", "0", " ", "Z">>,
      Open |->    \* "M0,0 L60,0 L60,80", not closed
        <<"M", "0", ",", "0", " ", "L", "6", "0", ",", "0", " ", "L", "6", "0", ",", "8", "0">>,
      Move |->    \* "M5,5": no edge
        <<"M", "5", ",", "5">>,
      Triangle |->    \* "M0,0 L10,0 L10,10 Z"
        <<"M", "0", ",", "0", " ", "L", "1", "0", ",", "0", " ", "L", "1", "0", ",", "1", "0", " ", "Z">>,
      Square |->    \* "M0,0 L10,0 L10,10 L0,10 Z"
        <<"M", "0", ",", "0", " ", "L", "1", "0", ",", "0", " ", "L", "1", "0", ",", "1", "0", " ", "L", "0", ",", "1", "0", " ", "Z">>,
      Decimal |->    \* "M-1.5,2 L4,2 L4,-3.5 Z"
        <<"M", "-", "1", ".", "5", ",", "2", " ", "L", "4", ",", "2", " ", "L", "4", ",", "-", "3", ".", "5", " ", "Z">>,
      There |->    \* "M0,0 L10,0 Z"
        <<"M", "0", ",", "0", " ", "L", "1", "0", ",", "0", " ", "Z">>,
      Blanks |->    \* "M 0 0 L 10 0 L 10 10 Z"
        <<"M", " ", "0", " ", "0", " ", "L", " ", "1", "0", " ", "0", " ", "L", " ", "1", "0", " ", "1", "0", " ", "Z">>,
      Near |->    \* "M0,0 L10,0 L10,10 L0.3,0 Z"
        <<"M", "0", ",", "0", " ", "L", "1", "0", ",", "0", " ", "L", "1", "0", ",", "1", "0", " ", "L", "0", ".", "3", ",", "0", " ", "Z">>,
      Half |->    \* "M0,0 L10,0 L0.5,0 Z"
        <<"M", "0", ",", "0", " ", "L", "1", "0", ",", "0", " ", "L", "0", ".", "5", ",", "0", " ", "Z">>,
      Relative |->    \* "m5,5 l10,0 l0,10 z"
        <<"m", "5", ",", "5", " ", "l", "1", "0", ",", "0", " ", "l", "0", ",", "1", "0", " ", "z">>,
      Axes |->    \* "M0,0 H10 V10 h-10 Z"
        <<"M", "0", ",", "0", " ", "H", "1", "0", " ", "V", "1", "0", " ", "h", "-", "1", "0", " ", "Z">>,
      Arc |->    \* "M0,0 A5,5 0 0 1 8,0 L8,8 Z"
        <<"M", "0", ",", "0", " ", "A", "5", ",", "5", " ", "0", " ", "0", " ", "1", " ", "8", ",", "0", " ", "L", "8", ",", "8", " ", "Z">>,
      ArcRel |->    \* "M2,2 a5,5 0 0 1 8,0 z"
        <<"M", "2", ",", "2", " ", "a", "5", ",", "5", " ", "0", " ", "0", " ", "1", " ", "8", ",", "0", " ", "z">>,
      Curve |->    \* "M0,0 C1,1 2,2 3,3 L10,0 L10,10 Z"
        <<"M", "0", ",", "0", " ", "C", "1", ",", "1", " ", "2", ",", "2", " ", "3", ",", "3", " ", "L", "1", "0", ",", "0", " ", "L", "1", "0", ",", "1", "0", " ", "Z">>,
      Two |->    \* "M0,0 L10,0 L10,10 Z M20,20 L30,20 L30,30 Z"
        <<"M", "0", ",", "0", " ", "L", "1", "0", ",", "0", " ", "L", "1", "0", ",", "1", "0", " ", "Z", " ", "M", "2", "0", ",", "2", "0", " ", "L", "3", "0", ",", "2", "0", " ", "L", "3", "0", ",", "3", "0", " ", "Z">>,
      CloseThen |->    \* "M5,5 L15,5 L15,15 z l10,0"
        <<"M", "5", ",", "5", " ", "L", "1", "5", ",", "5", " ", "L", "1", "5", ",", "1", "5", " ", "z", " ", "l", "1", "0", ",", "0">>,
      Short |->    \* "M0,0 L10"
        <<"M", "0", ",", "0", " ", "L", "1", "0">>,
      ArcWide |->    \* "M0,0 A9,3 45 1 0 8,0 L8,8 Z": Arc with other radii, rotation, flags
        <<"M", "0", ",", "0", " ", "A", "9", ",", "3", " ", "4", "5", " ", "1", " ", "0", " ", "8", ",", "0", " ", "L", "8", ",", "8", " ", "Z">>,
      ArcSlant |->    \* "M1,1 a2,7 30 1 1 4,-12 l1,0"
        <<"M", "1", ",", "1", " ", "a", "2", ",", "7", " ", "3", "0", " ", "1", " ", "1", " ", "4", ",", "-", "1", "2", " ", "l", "1", ",", "0">>,
      Stray |->    \* "M0,0 L10,0 10,10 Z": a second pair after L
        <<"M", "0", ",", "0", " ", "L", "1", "0", ",", "0", " ", "1", "0", ",", "1", "0", " ", "Z">>,
      NearThen |->    \* "M0,0 L10,0 L0.3,0 Z l5,5"
        <<"M", "0", ",", "0", " ", "L", "1", "0", ",", "0", " ", "L", "0", ".", "3", ",", "0", " ", "Z", " ", "l", "5", ",", "5">> ]

\* the viewBox attributes the model draws
BoundsText ==
    [ Plain |->    \* "0 0 500 500"
        <<"0", " ", "0", " ", "5", "0", "0", " ", "5", "0", "0">>,
      Commas |->    \* "0,0,500,500"
        <<"0", ",", "0", ",", "5", "0", "0", ",", "5", "0", "0">>,
      Shifted |->    \* "100 100 600 600": the origin is not 0
        <<"1", "0", "0", " ", "1", "0", "0", " ", "6", "0", "0", " ", "6", "0", "0">>,
      Blank |->    \* " 0 0 500 500": a blank in front
        <<" ", "0", " ", "0", " ", "5", "0", "0", " ", "5", "0", "0">> ]

\* the declared bounds, the target canvas and the scene offset
Frames ==
    { [viewBox |-> <<>>, targetW |-> 1000, targetH |-> 1000, sceneX |-> 0, sceneY |-> 0],
      [viewBox |-> BoundsText.Plain, targetW |-> 1000, targetH |-> 2000,
       sceneX |-> 100, sceneY |-> 50] }

MakeInput(lines, shapes, rooms, frame, gw) ==
    [svg |-> [tag |-> "svg", viewBox |-> frame.viewBox, children |-> lines \o shapes],
     outline |-> [rooms |-> rooms],
     options |-> [generateWalls |-> gw],
     targetW |-> frame.targetW, targetH |-> frame.targetH,
     sceneX |-> frame.sceneX, sceneY |-> frame.sceneY]

Circle(cx, cy, rad, roomId, outdoor) ==
    [tag |-> "circle", cx |-> cx, cy |-> cy, r |-> rad,
     roomId |-> roomId, outdoor |-> outdoor]

Ellipse(cx, cy, rx, ry, roomId, outdoor) ==
    [tag |-> "ellipse", cx |-> cx, cy |-> cy, rx |-> rx, ry |-> ry,
     roomId |-> roomId, outdoor |-> outdoor]

Polygon(points, roomId, outdoor) ==
    [tag |-> "polygon", points |-> points, roomId |-> roomId, outdoor |-> outdoor]

Path(d, roomId, outdoor) ==
    [tag |-> "path", d |-> d, roomId |-> roomId, outdoor |-> outdoor]

\* shapes of the other four kinds, some of them degenerate, in an order
\* that is not the order of the loops
OtherShapes ==
    << Path(PathText.Quad, Null, "true"),
       Path(PathText.Open, "b", Null),
       Path(PathText.Move, Null, Null),
       Polygon(PointsText.Quad, Null, Null),
       Polygon(PointsText.Two, Null, Null),
       Ellipse(300, 300, 100, 200, "a", Null),
       Ellipse(300, 300, 0, 200, Null, Null),
       Circle(300, 200, 100, Null, Null),
       Circle(300, 300, 0, Null, Null) >>

\* the sequences of at most n elements of list, in the order of list
RECURSIVE Picks(_, _)
Picks(list, n) ==
    IF list = <<>> \/ n = 0 THEN { <<>> }
    ELSE Picks(Tail(list), n)
           \cup { <<Head(list)>> \o rest : rest \in Picks(Tail(list), n - 1) }

\* a document whose root element has another tag name
WithRoot(in, tag) == [in EXCEPT !.svg.tag = tag]

\* what the parser returns for text that is not a vector layout, and a
\* layout whose root is written in capitals
OtherRoots ==
    { WithRoot(MakeInput(lines, shapes, <<RoomA>>, frame, TRUE), tag) :
        tag \in {"parsererror", "html", "SVG"},
        lines \in {<<>>, <<DoorShared>>},
        shapes \in {<<>>, <<Rect(0, 0, 100, 100, Null, Null)>>},
        frame \in Frames }

\* one room with a door under other declarations of the bounds
OtherBounds ==
    { MakeInput(<<DoorShared>>, <<Rect(0, 0, 100, 100, Null, Null)>>, <<RoomA>>,
                [viewBox |-> vb, targetW |-> 1000, targetH |-> 1000,
                 sceneX |-> 100, sceneY |-> 50], TRUE) :
        vb \in {BoundsText.Commas, BoundsText.Shifted, BoundsText.Blank} }

\* layouts of rectangles, and layouts with shapes of the other kinds before
\* at most one rectangle
Inputs ==
    { MakeInput(lines, shapes, rooms, frame, gw) :
        lines \in LineLists, shapes \in SeqsUpTo(RectVariants, MaxShapes),
        rooms \in Outlines, frame \in Frames, gw \in BOOLEAN }
    \cup
    { MakeInput(<<DoorShared>>, others \o rects, rooms, frame, gw) :
        rects \in SeqsUpTo({Rect(0, 0, 100, 100, Null, Null)}, 1),
        others \in Picks(OtherShapes, MaxShapes) \ { <<>> },
        rooms \in {<<>>, <<RoomB, RoomA>>}, frame \in Frames, gw \in BOOLEAN }
    \cup OtherRoots \cup OtherBounds

\* a run that is never started
NoInput == MakeInput(<<>>, <<>>, <<>>, CHOOSE f \in Frames : f.viewBox = <<>>, TRUE)

EdgeOff ==
    /\ nPc = "off"
    /\ nShape = [tag |-> "none"]
    /\ nEdges = <<>>
    /\ nCentre = <<>>
    /\ nTokens = <<>>
    /\ nSt = PathStart

\* the images are what they were painted from: the base canvas with the
\* inpainted candidates accepted onto it, in order
BaseCanvas == <<>>

\* the value of an image variable not yet assigned
NoImage == <<[room |-> Null, attempt |-> 0]>>

\* a pipeline state without outline
NoOutline == [missing |-> TRUE]

PaintOff ==
    /\ gPc = "off"
    /\ gState = [outline |-> NoOutline, svg |-> FALSE, layoutImageBuffer |-> NoImage, imageBuffer |-> NoImage]
    /\ gI = 0
    /\ gAttempt = 0
    /\ gSuccess = FALSE
    /\ gImage = NoImage
    /\ gMask = Null
    /\ gCandidate = NoImage
    /\ gLog = <<>>

SplitOff ==
    /\ sPc = "off"
    /\ sWall = <<0, 0, 0, 0>>
    /\ sDoors = <<>>
    /\ sOverlaps = <<>>
    /\ sMerged = <<>>
    /\ sResult = <<>>

CompileInit(ins, started) ==
    /\ input = ins
    /\ pc = [r \in Runs |-> IF r \in started THEN "start" ELSE "idle"]
    /\ doorSegments = [r \in Runs |-> <<>>]
    /\ wallsData = [r \in Runs |-> <<>>]
    /\ lightsData = [r \in Runs |-> <<>>]
    /\ journalEntries = [r \in Runs |-> <<>>]
    /\ notesData = [r \in Runs |-> <<>>]
    /\ roomIndex = [r \in Runs |-> 0]
    /\ ei = [r \in Runs |-> 1]
    /\ ji = [r \in Runs |-> 1]
    /\ folder = [r \in Runs |-> 0]
    /\ journals = [r \in Runs |-> <<>>]
    /\ hostWalls = [r \in Runs |-> <<>>]
    /\ hostLights = [r \in Runs |-> <<>>]
    /\ hostNotes = [r \in Runs |-> <<>>]
    /\ hostJournals = <<>>
    /\ hostFolders = <<>>

\* Spec: one compilation of any input
Init ==
    /\ SplitOff
    /\ EdgeOff
    /\ PaintOff
    /\ \E in \in Inputs : CompileInit([r \in Runs |-> IF r = 1 THEN in ELSE NoInput], {1})

Spec == Init /\ [][Next]_vars

\* PairSpec: two compilations of the same layout, room metadata and frame,
\* each with its own options, interleaved at every step
PairRects ==
    { Rect(0, 0, 100, 100, Null, Null),
      Rect(100, 0, 100, 100, "b", Null),
      Rect(100, 0, 100, 100, Null, "true") }

\* layouts of the other four kinds
PairOthers ==
    { << Circle(300, 200, 100, "a", Null), Ellipse(300, 300, 100, 200, Null, Null) >>,
      << Path(PathText.Quad, Null, Null), Polygon(PointsText.Quad, Null, "true") >> }

\* two layouts that have nothing in common: a room, and the room to its
\* right with a door in its left edge, each with its own metadata
LayoutLeft ==
    MakeInput(<<>>, <<Rect(0, 0, 100, 100, Null, Null)>>, <<RoomA>>,
              CHOOSE f \in Frames : f.viewBox = <<>>, TRUE)

LayoutRight ==
    MakeInput(<<DoorShared>>, <<Rect(100, 0, 100, 100, Null, Null)>>, <<RoomB>>,
              CHOOSE f \in Frames : f.viewBox = <<>>, TRUE)

PairInit ==
    /\ SplitOff
    /\ EdgeOff
    /\ PaintOff
    /\ \/ \E shapes \in SeqsUpTo(PairRects, MaxShapes) \cup PairOthers,
             gw1 \in BOOLEAN, gw2 \in BOOLEAN :
             CompileInit([r \in Runs |->
                             MakeInput(<<DoorShared>>, shapes, <<RoomB, RoomA>>,
                                       CHOOSE f \in Frames : f.viewBox # <<>>,
                                       IF r = 1 THEN gw1 ELSE gw2)], Runs)
       \/ \E first \in {LayoutLeft, LayoutRight} :
             CompileInit([r \in Runs |->
                             IF (r = 1) = (first = LayoutLeft) THEN LayoutLeft
                             ELSE LayoutRight], Runs)

PairSpec == PairInit /\ [][Next]_vars

-----------------------------------------------------------------------------
(* SplitSpec: one call of _splitWallForDoors on a wall and a door list     *)
(* drawn from bounded sets.                                                *)

MaxDoors == 2

\* walls: horizontal, the same reversed, diagonal (length 1000 each),
\* a short vertical one, and a zero-length one
SplitWalls ==
    { <<0, 0, 1000, 0>>, <<1000, 0, 0, 0>>, <<0, 0, 600, 800>>,
      <<0, 0, 0, 40>>, <<5, 5, 5, 5>> }

\* door coordinates [x1, y1, x2, y2]
SplitDoorCoords ==
    { <<400, 0, 600, 0>>,      \* centred on the horizontal wall
      <<450, 0, 700, 0>>,      \* overlaps the previous one
      <<700, 0, 601, 0>>,      \* drawn backwards, 0.001 after 600
      <<602, 3, 800, -3>>,     \* 0.002 after 600, off the line within tol
      <<-8, 0, -5, 0>>,        \* wholly before the wall start
      <<-9, 0, -8, 0>>,
      <<1005, 0, 1008, 0>>,    \* wholly after the wall end
      <<-5, 0, 100, 0>>,       \* runs past the wall start
      <<900, 0, 1100, 0>>,     \* runs a tenth of the wall past its end
      <<1, 0, 999, 0>>,        \* leaves 0.001 at both ends
      <<2, 0, 998, 0>>,        \* leaves 0.002 at both ends
      <<500, -6, 500, 6>>,     \* crosses the wall at right angles
      <<400, 0, 600, 7>>,      \* one end farther than tol
      <<240, 320, 360, 480>>,  \* centred on the diagonal wall
      <<1, 0, 300, 400>>,      \* 0.0006 after the diagonal wall's start
      <<0, 10, 0, 30>> }       \* centred on the short wall

DoorRec(c) == [c |-> c, door |-> 1, ds |-> 0]

SplitInit ==
    /\ sPc = "call"
    /\ sWall \in SplitWalls
    /\ sDoors \in SeqsUpTo({ DoorRec(c) : c \in SplitDoorCoords }, MaxDoors)
    /\ sOverlaps = <<>>
    /\ sMerged = <<>>
    /\ sResult = <<>>
    /\ CompileInit([r \in Runs |-> NoInput], {})
    /\ EdgeOff
    /\ PaintOff

\* the call: the locals it builds and the array it returns
Split ==
    /\ sPc = "call"
    /\ sPc' = "ret"
    /\ sOverlaps' = CollectOverlaps(sWall, sDoors, Tol)
    /\ sMerged' = IF Len(sOverlaps') = 0 THEN <<>>
                  ELSE MergeOverlaps(SortByT1(sOverlaps'))
    /\ sResult' = SplitWallForDoors(sWall, sDoors, Tol)
    /\ UNCHANGED <<sWall, sDoors, compileVars, edgeVars, paintVars>>

SplitNext == Split

SplitSpec == SplitInit /\ [][SplitNext]_vars

-----------------------------------------------------------------------------
(* EdgeSpec: one shape element drawn from a bounded set is turned into its  *)
(* edges array, as the body of its forEach does before it calls processRoom. *)

MaxChars == 3

\* characters of d attributes: commands the interpreter supports, commands
\* it does not, and what numbers are written with
PathChars == { "M", "l", "A", "z", "C", "q", "7", "-" }

\* the shapes handed to the normalisers: rectangles, circles, ellipses,
\* polygons and paths
EdgeShapes ==
    { Rect(x, y, w, h, Null, Null) :
        x \in {0, 5}, y \in {0, -3}, w \in {0, 10, -4, 7}, h \in {0, 10, 3} } \cup
    { Circle(cx, cy, rad, Null, Null) :
        cx \in {0, 300}, cy \in {0, 200, 256, 300}, rad \in {0, 100} } \cup
    { Ellipse(300, cy, rx, ry, Null, Null) :
        cy \in {100, 300}, rx \in {0, 100}, ry \in {0, 50, 200} } \cup
    { Polygon(pts, Null, Null) :
        pts \in { <<>>, PointsText.Quad, PointsText.Two, PointsText.Triangle, PointsText.Padded, PointsText.Odd,
                  PointsText.Comma, PointsText.One, PointsText.Decimal } } \cup
    { Path(d, Null, Null) : d \in SeqsUpTo(PathChars, MaxChars) } \cup
    { Path(d, Null, Null) :
        d \in { <<>>, PathText.Quad, PathText.Open, PathText.Move, PathText.Triangle, PathText.Square, PathText.Decimal,
                PathText.There, PathText.Blanks, PathText.Near, PathText.Half, PathText.Relative, PathText.Axes,
                PathText.Arc, PathText.ArcRel, PathText.Curve, PathText.Two, PathText.CloseThen, PathText.Short,
                PathText.Stray, PathText.NearThen, PathText.ArcWide, PathText.ArcSlant } }

\* the edges array the forEach body of the element's kind builds; empty
\* where the body returns before processRoom
EdgesOf(el) ==
    CASE el.tag = "rect" ->
           IF el.width = 0 \/ el.height = 0 THEN <<>>
           ELSE QEdges(RectEdges(el.x, el.y, el.width, el.height))
      [] el.tag = "circle" ->
           IF el.r = 0 THEN <<>> ELSE CircleToEdges(el.cx, el.cy, el.r, el.r, 24)
      [] el.tag = "ellipse" ->
           IF el.rx = 0 \/ el.ry = 0 THEN <<>>
           ELSE CircleToEdges(el.cx, el.cy, el.rx, el.ry, 24)
      [] el.tag = "polygon" ->
           IF el.points = <<>> THEN <<>> ELSE PolygonToEdges(el.points)
      [] el.tag = "path" ->
           IF el.d = <<>> THEN <<>> ELSE PathToEdges(el.d)

\* [cx, cy] as the forEach body of the element's kind hands it to
\* processRoom, for an element it does not skip
CentreOf(el) ==
    CASE el.tag = "rect" ->
           <<Frac(2 * el.x + el.width, 2), Frac(2 * el.y + el.height, 2)>>
      [] el.tag \in {"circle", "ellipse"} -> <<Q(el.cx), Q(el.cy)>>
      [] el.tag = "polygon" -> PolygonCentre(el.points)

EdgeInit ==
    /\ nPc = "call"
    /\ nShape \in EdgeShapes
    /\ nEdges = <<>>
    /\ nCentre = <<>>
    /\ nTokens = <<>>
    /\ nSt = PathStart
    /\ sPc = "off" /\ sWall = <<0, 0, 0, 0>> /\ sDoors = <<>>
    /\ sOverlaps = <<>> /\ sMerged = <<>> /\ sResult = <<>>
    /\ CompileInit([r \in Runs |-> NoInput], {})
    /\ PaintOff

\* the d attribute is there: _pathToEdges is entered
PathCalled(el) == el.tag = "path" /\ el.d # <<>>

\* the forEach body of an element up to its call of processRoom; for a path
\* with a d attribute, see PathEnter, PathLoop and PathLeave
Normalize ==
    /\ nPc = "call"
    /\ ~PathCalled(nShape)
    /\ nPc' = "ret"
    /\ nEdges' = EdgesOf(nShape)
    /\ nCentre' = IF nEdges' = <<>> THEN <<>> ELSE CentreOf(nShape)
    /\ UNCHANGED <<nShape, nTokens, nSt, splitVars, compileVars, paintVars>>

\* _pathToEdges up to its while loop
PathEnter ==
    /\ nPc = "call"
    /\ PathCalled(nShape)
    /\ nPc' = "loop"
    /\ nTokens' = MatchTokens(nShape.d, 1)
    /\ nSt' = PathStart
    /\ UNCHANGED <<nShape, nEdges, nCentre, splitVars, compileVars, paintVars>>

\* one turn of the while loop
PathLoop ==
    /\ nPc = "loop"
    /\ nSt.i <= Len(nTokens)
    /\ nSt' = PathStep(nTokens, nSt)
    /\ UNCHANGED <<nPc, nShape, nEdges, nCentre, nTokens, splitVars, compileVars, paintVars>>

\* the loop is left, the edges are returned and the centroid is computed
PathLeave ==
    /\ nPc = "loop"
    /\ nSt.i > Len(nTokens)
    /\ nPc' = "ret"
    /\ nEdges' = nSt.edges
    /\ nCentre' = IF nEdges' = <<>> THEN <<>> ELSE PathCentre(nEdges')
    /\ UNCHANGED <<nShape, nTokens, nSt, splitVars, compileVars, paintVars>>

EdgeNext == Normalize \/ PathEnter \/ PathLoop \/ PathLeave

EdgeSpec == EdgeInit /\ [][EdgeNext]_vars

\* the while loop runs on: no turn of it, nor the return, waits for anything
EdgeLive == EdgeSpec /\ WF_vars(PathLoop) /\ WF_vars(PathLeave)

-----------------------------------------------------------------------------
(* PaintSpec: one call of InpaintingPipeline.generateImage on a pipeline    *)
(* state drawn from a bounded set. The call is suspended at each awaited    *)
(* call; an awaited call resolves or rejects. The image generator's         *)
(* answers are the environment's: a validation passes or fails.             *)

MaxRooms == 2

MaxRetries == 3

\* this.state before the call
PaintStates ==
    { [outline |-> o, svg |-> v, layoutImageBuffer |-> NoImage, imageBuffer |-> NoImage] :
        o \in {NoOutline} \cup { [rooms |-> rs] : rs \in SeqsUpTo({ [id |-> r] : r \in {"hall", "crypt", "vault"} }, MaxRooms) },
        v \in BOOLEAN }

PaintInit ==
    /\ gPc = "call"
    /\ gState \in PaintStates
    /\ gI = 0
    /\ gAttempt = 0
    /\ gSuccess = FALSE
    /\ gImage = NoImage
    /\ gMask = Null
    /\ gCandidate = NoImage
    /\ gLog = <<>>
    /\ SplitOff
    /\ EdgeOff
    /\ CompileInit([r \in Runs |-> NoInput], {})

LogLine(msg, i, attempt) == [msg |-> msg, i |-> i, attempt |-> attempt]

\* the candidate the generator returns: the image it was given with the
\* masked room painted, a new image at every call
Inpainted(image, mask, attempt) == Append(image, [room |-> mask, attempt |-> attempt])

\* the branch on validation.pass were the candidate of a failed last attempt
\* dropped like the earlier ones
JudgeDropLast(pass, i, attempt, currentImage, candidateImage) ==
    IF pass
    THEN [currentImage |-> candidateImage, roomSuccess |-> TRUE, lines |-> <<LogLine("passed", i, attempt)>>]
    ELSE IF attempt >= MaxRetries
         THEN [currentImage |-> currentImage, roomSuccess |-> TRUE,
               lines |-> <<LogLine("failed", i, attempt), LogLine("accepting", i, attempt)>>]
         ELSE [currentImage |-> currentImage, roomSuccess |-> FALSE, lines |-> <<LogLine("failed", i, attempt)>>]

\* the branch on validation.pass: the new currentImage and roomSuccess, and
\* the lines written
Judge(pass, i, attempt, currentImage, candidateImage) ==
    IF pass
    THEN [currentImage |-> candidateImage, roomSuccess |-> TRUE, lines |-> <<LogLine("passed", i, attempt)>>]
    ELSE IF attempt >= MaxRetries
         THEN [currentImage |-> candidateImage, roomSuccess |-> TRUE,
               lines |-> <<LogLine("failed", i, attempt), LogLine("accepting", i, attempt)>>]
         ELSE [currentImage |-> currentImage, roomSuccess |-> FALSE, lines |-> <<LogLine("failed", i, attempt)>>]

\* the checks before the try block, then the call of _generateBaseCanvas
PaintBegin ==
    /\ gPc = "call"
    /\ gPc' = IF \/ gState.outline = NoOutline
                 \/ ~gState.svg
                 \/ Len(gState.outline.rooms) = 0
              THEN "failed" ELSE "base"
    /\ UNCHANGED <<gState, gI, gAttempt, gSuccess, gImage, gMask, gCandidate, gLog,
                   splitVars, compileVars, edgeVars>>

\* the base canvas arrives: it is kept as the layout image and the first
\* room's first attempt begins, up to its call of _extractRoomMask
BaseCanvasDone ==
    /\ gPc = "base"
    /\ gPc' = "mask"
    /\ gImage' = BaseCanvas
    /\ gState' = [gState EXCEPT !.layoutImageBuffer = BaseCanvas]
    /\ gI' = 0
    /\ gAttempt' = 1
    /\ gSuccess' = FALSE
    /\ gLog' = Append(gLog, LogLine("painting", 0, 1))
    /\ UNCHANGED <<gMask, gCandidate, splitVars, compileVars, edgeVars>>

\* the mask arrives: the prompt is built and inpaintRegion is called
MaskDone ==
    /\ gPc = "mask"
    /\ gPc' = "inpaint"
    /\ gMask' = gState.outline.rooms[gI + 1].id
    /\ UNCHANGED <<gState, gI, gAttempt, gSuccess, gImage, gCandidate, gLog,
                   splitVars, compileVars, edgeVars>>

\* the candidate arrives: validateInpaintQuality is called on it
InpaintDone ==
    /\ gPc = "inpaint"
    /\ gPc' = "validate"
    /\ gCandidate' = Inpainted(gImage, gMask, gAttempt)
    /\ UNCHANGED <<gState, gI, gAttempt, gSuccess, gImage, gMask, gLog,
                   splitVars, compileVars, edgeVars>>

\* the validation arrives: the branch on it, then the while and for loops
\* up to the next call of _extractRoomMask or to the return
Validated ==
    /\ gPc = "validate"
    /\ \E pass \in BOOLEAN :
         \E j \in {Judge(pass, gI, gAttempt, gImage, gCandidate)} :
           /\ gImage' = j.currentImage
           /\ gSuccess' = j.roomSuccess
           /\ IF gAttempt < MaxRetries /\ ~j.roomSuccess
              THEN /\ gPc' = "mask"
                   /\ gAttempt' = gAttempt + 1
                   /\ gLog' = gLog \o j.lines \o <<LogLine("retrying", gI, gAttempt + 1)>>
                   /\ UNCHANGED <<gI, gState>>
              ELSE IF gI + 1 < Len(gState.outline.rooms)
              THEN /\ gPc' = "mask"
                   /\ gI' = gI + 1
                   /\ gAttempt' = 1
                   /\ gLog' = gLog \o j.lines \o <<LogLine("painting", gI + 1, 1)>>
                   /\ UNCHANGED gState
              ELSE /\ gPc' = "done"
                   /\ gI' = gI + 1
                   /\ gState' = [gState EXCEPT !.imageBuffer = j.currentImage]
                   /\ gLog' = gLog \o j.lines \o <<LogLine("all painted", gI + 1, gAttempt)>>
                   /\ UNCHANGED gAttempt
    /\ UNCHANGED <<gMask, gCandidate, splitVars, compileVars, edgeVars>>

\* the awaited call rejects: the catch block rethrows
Rejected ==
    /\ gPc \in {"base", "mask", "inpaint", "validate"}
    /\ gPc' = "failed"
    /\ UNCHANGED <<gState, gI, gAttempt, gSuccess, gImage, gMask, gCandidate, gLog,
                   splitVars, compileVars, edgeVars>>

PaintNext == PaintBegin \/ BaseCanvasDone \/ MaskDone \/ InpaintDone \/ Validated \/ Rejected

PaintSpec == PaintInit /\ [][PaintNext]_vars

\* every awaited call settles, so the call keeps going until it returns or
\* throws
PaintLive ==
    PaintSpec /\ WF_vars(PaintBegin) /\ WF_vars(BaseCanvasDone) /\ WF_vars(MaskDone)
              /\ WF_vars(InpaintDone) /\ WF_vars(Validated)

-----------------------------------------------------------------------------
(* Reading a result of the splitter: positions along the wall *)

WallLen2(wall) ==
    (wall[3] - wall[1]) * (wall[3] - wall[1]) + (wall[4] - wall[2]) * (wall[4] - wall[2])

\* the parameter along the wall of the point (x, y), both rationals
ParamOf(wall, x, y) ==
    LET dx == wall[3] - wall[1]
        dy == wall[4] - wall[2]
    IN  Frac((x[1] - wall[1] * x[2]) * dx * y[2] + (y[1] - wall[2] * y[2]) * dy * x[2],
             x[2] * y[2] * WallLen2(wall))

SegStart(wall, seg) == ParamOf(wall, seg.c[1], seg.c[2])
SegEnd(wall, seg) == ParamOf(wall, seg.c[3], seg.c[4])

\* two parameter intervals share more than a point
OpenOverlap(a1, a2, b1, b2) == RLt(RMax(a1, b1), RMin(a2, b2))

IsDoorRecord(rec) == "door" \in DOMAIN rec

SplitReturned == sPc = "ret"

-----------------------------------------------------------------------------
(* Claims about _splitWallForDoors, checked under SplitSpec *)

\* C1: for every door whose two endpoints both match the wall, no emitted
\* sub-segment overlaps the door's projected (clamped) interval: no parameter
\* strictly between the door's t1 and t2 lies in the interior of a sub-segment.
C1_NoSubSegmentOverDoor ==
    (SplitReturned /\ WallLen2(sWall) > 0) =>
        \A i \in DOMAIN sOverlaps : \A k \in DOMAIN sResult :
            ~OpenOverlap(sOverlaps[i].t1, sOverlaps[i].t2,
                         SegStart(sWall, sResult[k]), SegEnd(sWall, sResult[k]))

\* two matched doors of positive projected width, one of them reaching the
\* far side of the other, and sub-segments emitted around them
C1_Witness ==
    /\ SplitReturned
    /\ Len(sOverlaps) = 2
    /\ \A i \in DOMAIN sOverlaps : RLt(sOverlaps[i].t1, sOverlaps[i].t2)
    /\ RLt(sOverlaps[2].t2, sOverlaps[1].t2)
    /\ Len(sResult) = 2

\* the point lies within Tol of the wall's line and within the wall's span
EndOnWall(px, py) ==
    PointOnSegment(px, py, sWall[1], sWall[2], sWall[3], sWall[4], Tol)

BothEndsOnWall(door) ==
    EndOnWall(door.c[1], door.c[2]) /\ EndOnWall(door.c[3], door.c[4])

\* C3: when no door of the list matches the wall (the list may be empty) the
\* result is exactly one sub-segment with the four coordinates of the input
\* edge, and it carries no door flag.
C3_NoDoorWholeWall ==
    (SplitReturned /\ \A i \in DOMAIN sDoors : ~BothEndsOnWall(sDoors[i])) =>
        /\ Len(sResult) = 1
        /\ sResult[1].c = <<Q(sWall[1]), Q(sWall[2]), Q(sWall[3]), Q(sWall[4])>>
        /\ ~IsDoorRecord(sResult[1])

\* a call with two doors in the list, one of them with a single end on the
\* wall, none of which matches
C3_Witness ==
    /\ SplitReturned
    /\ Len(sDoors) = 2
    /\ WallLen2(sWall) > 0
    /\ \A i \in DOMAIN sDoors : ~BothEndsOnWall(sDoors[i])
    /\ \E i \in DOMAIN sDoors : EndOnWall(sDoors[i].c[1], sDoors[i].c[2])
    /\ Len(sResult) = 1

\* the covering intervals of a result: its sub-segments and the merged ranges
CoverIntervals ==
    { <<SegStart(sWall, sResult[k]), SegEnd(sWall, sResult[k])>> : k \in DOMAIN sResult }
        \cup { <<sMerged[m].t1, sMerged[m].t2>> : m \in DOMAIN sMerged }

\* p, a point of [0, 1), is the left end of a stretch no interval covers
UncoveredFrom(p) ==
    /\ RLe(Q(0), p) /\ RLt(p, Q(1))
    /\ \A iv \in CoverIntervals : ~(RLe(iv[1], p) /\ RLt(p, iv[2]))

\* the stretch that starts at p ends before p + len
StretchShorter(p, len) ==
    \/ RLt(RSub(Q(1), p), len)
    \/ \E iv \in CoverIntervals :
          /\ RLt(p, iv[1]) /\ RLt(iv[1], iv[2])
          /\ RLt(RSub(iv[1], p), len)

\* the door list is one door lying exactly on the wall line, centred on it
OneCentredDoor ==
    /\ Len(sDoors) = 1
    /\ Len(sOverlaps) = 1
    /\ LET c == sDoors[1].c
           cross(px, py) == (px - sWall[1]) * (sWall[4] - sWall[2])
                                - (py - sWall[2]) * (sWall[3] - sWall[1])
           p1 == ProjectParam(c[1], c[2], sWall[1], sWall[2], sWall[3], sWall[4])
           p2 == ProjectParam(c[3], c[4], sWall[1], sWall[2], sWall[3], sWall[4])
       IN  /\ cross(c[1], c[2]) = 0 /\ cross(c[3], c[4]) = 0
           /\ RAdd(p1, p2) = Q(1)
           /\ p1 # p2
           /\ RLt(Q(0), RMin(p1, p2))

\* C4, first part (the claim as stated): the sub-segments are ordered along
\* the wall from its start to its end and pairwise non-overlapping.
C4_OrderedDisjoint ==
    (SplitReturned /\ WallLen2(sWall) > 0) =>
        \A j, k \in DOMAIN sResult :
            j < k => /\ RLe(SegEnd(sWall, sResult[j]), SegStart(sWall, sResult[k]))
                     /\ ~OpenOverlap(SegStart(sWall, sResult[j]), SegEnd(sWall, sResult[j]),
                                     SegStart(sWall, sResult[k]), SegEnd(sWall, sResult[k]))

\* C4, second part: with the merged door ranges the sub-segments cover the
\* whole edge except slivers shorter than 0.001 of parameter length.
C4_CoversEdge ==
    (SplitReturned /\ WallLen2(sWall) > 0) =>
        \A p \in {Q(0)} \cup { iv[2] : iv \in CoverIntervals } :
            UncoveredFrom(p) => StretchShorter(p, MergeEps)

\* C4, third part: one door of length d centred on and coincident with a wall
\* of length L gives exactly two sub-segments of combined length L - d within
\* 0.001 * L.
C4_CentredDoor ==
    (SplitReturned /\ WallLen2(sWall) > 0 /\ OneCentredDoor) =>
        /\ Len(sResult) = 2
        /\ LET total == RAdd(RSub(SegEnd(sWall, sResult[1]), SegStart(sWall, sResult[1])),
                             RSub(SegEnd(sWall, sResult[2]), SegStart(sWall, sResult[2])))
               rest  == RSub(Q(1), RSub(sOverlaps[1].t2, sOverlaps[1].t1))
           IN  /\ RLe(RSub(total, rest), MergeEps)
               /\ RLe(RSub(rest, total), MergeEps)

\* C4 (the claim as stated, all of it)
C4_OrderedCover == C4_OrderedDisjoint /\ C4_CoversEdge /\ C4_CentredDoor

\* ranges i and j lie more than 0.001 apart
RangesApart(i, j) ==
    \/ RLt(RAdd(sOverlaps[i].t2, MergeEps), sOverlaps[j].t1)
    \/ RLt(RAdd(sOverlaps[j].t2, MergeEps), sOverlaps[i].t1)

\* ranges i and j have a point in common
RangesOverlap(i, j) ==
    /\ RLe(sOverlaps[i].t1, sOverlaps[i].t2) /\ RLe(sOverlaps[j].t1, sOverlaps[j].t2)
    /\ RLe(sOverlaps[i].t1, sOverlaps[j].t2) /\ RLe(sOverlaps[j].t1, sOverlaps[i].t2)

AllRangesSeparate ==
    /\ \A i, j \in DOMAIN sOverlaps : i # j => RangesApart(i, j)
    /\ \A i \in DOMAIN sOverlaps :
          /\ RLt(MergeEps, sOverlaps[i].t1)
          /\ RLt(sOverlaps[i].t2, RSub(Q(1), MergeEps))

\* C5: k matching doors whose ranges are pairwise more than 0.001 apart and
\* more than 0.001 inside both wall ends give exactly k + 1 sub-segments; when
\* two of the ranges overlap, strictly fewer than k + 1 are emitted.
C5_GapsPlusOne ==
    SplitReturned =>
        /\ AllRangesSeparate => Len(sResult) = Len(sOverlaps) + 1
        /\ (\E i, j \in DOMAIN sOverlaps : i # j /\ RangesOverlap(i, j))
              => Len(sResult) < Len(sOverlaps) + 1

\* two separate doors matched: three sub-segments
C5_Witness ==
    /\ SplitReturned
    /\ Len(sOverlaps) = 2
    /\ AllRangesSeparate
    /\ Len(sResult) = 3

\* the point is within perpendicular distance Tol of the line of the wall:
\* |c| / length <= Tol, that is c^2 <= Tol^2 * length^2, for a whole c
WithinTolOfLine(px, py) ==
    LET dx == sWall[3] - sWall[1]
        dy == sWall[4] - sWall[2]
        c  == (px - sWall[1]) * dy - (py - sWall[2]) * dx
    IN  Abs(c) <= ISqrt(Tol * Tol * WallLen2(sWall))

\* the wall is not of near-zero length (0.1), and both ends of the door are
\* within Tol of its line
OnWallLine(door) ==
    /\ 100 * WallLen2(sWall) >= 1
    /\ WithinTolOfLine(door.c[1], door.c[2])
    /\ WithinTolOfLine(door.c[3], door.c[4])

\* the projection of the point falls on the wall, a hundredth of its length
\* allowed at either end
WithinSpan(px, py) ==
    LET t == ParamOf(sWall, Q(px), Q(py))
    IN  RLe(<<-1, 100>>, t) /\ RLe(t, <<101, 100>>)

OnWallSpan(door) ==
    /\ OnWallLine(door)
    /\ WithinSpan(door.c[1], door.c[2])
    /\ WithinSpan(door.c[3], door.c[4])

\* the projection of the door on the wall, clamped to the wall
ClampedRange(door) ==
    LET p1 == ParamOf(sWall, Q(door.c[1]), Q(door.c[2]))
        p2 == ParamOf(sWall, Q(door.c[3]), Q(door.c[4]))
    IN  [t1 |-> RMax(Q(0), RMin(p1, p2)), t2 |-> RMin(Q(1), RMax(p1, p2))]

\* the projection of the door has a point in common with the wall
ReachesWall(door) ==
    LET p1 == ParamOf(sWall, Q(door.c[1]), Q(door.c[2]))
        p2 == ParamOf(sWall, Q(door.c[3]), Q(door.c[4]))
    IN  RLe(Q(0), RMax(p1, p2)) /\ RLe(RMin(p1, p2), Q(1))

\* the doors the call matched are those of the list that satisfy Test, in
\* list order, each one that reaches the wall with its clamped range
MatchedAre(Test(_)) ==
    LET due == SelectSeq(sDoors, Test)
    IN  /\ Len(sOverlaps) = Len(due)
        /\ \A k \in DOMAIN due :
              ReachesWall(due[k]) => sOverlaps[k] = ClampedRange(due[k])

-----------------------------------------------------------------------------
(* Reading a compilation *)

\* segments a and b, each four rationals, are collinear and share a stretch
\* of positive length
SameStretch(a, b) ==
    LET dx == RSub(a[3], a[1])
        dy == RSub(a[4], a[2])
        len2 == RAdd(RMul(dx, dx), RMul(dy, dy))
        cross(px, py) == RSub(RMul(dx, RSub(py, a[2])), RMul(dy, RSub(px, a[1])))
        u(px, py) == RDiv(RAdd(RMul(RSub(px, a[1]), dx), RMul(RSub(py, a[2]), dy)), len2)
    IN  /\ len2 # Q(0)
        /\ cross(b[1], b[2]) = Q(0)
        /\ cross(b[3], b[4]) = Q(0)
        /\ OpenOverlap(RMin(u(b[1], b[2]), u(b[3], b[4])),
                       RMax(u(b[1], b[2]), u(b[3], b[4])), Q(0), Q(1))

NonDegenerate(el) == el.width # 0 /\ el.height # 0

\* no two rectangles of the layout are the same rectangle
DistinctRooms(r) ==
    \A i, j \in DOMAIN Rects(r) :
        (i < j /\ NonDegenerate(Rects(r)[i]) /\ NonDegenerate(Rects(r)[j]))
            => <<Rects(r)[i].x, Rects(r)[i].y, Rects(r)[i].width, Rects(r)[i].height>>
                 # <<Rects(r)[j].x, Rects(r)[j].y, Rects(r)[j].width, Rects(r)[j].height>>

\* the step taken is an iteration of the rectangles' forEach of run r
RectStep(r) == pc[r] = "rects" /\ ei'[r] = ei[r] + 1

\* the element carries an identifier some metadata entry has
HasIdMatch(r, el) ==
    /\ el.roomId # Null /\ el.roomId # ""
    /\ \E i \in DOMAIN input[r].outline.rooms : input[r].outline.rooms[i].id = el.roomId

SetMin(S) == CHOOSE i \in S : \A j \in S : i <= j

Last(seq) == seq[Len(seq)]

-----------------------------------------------------------------------------
(* Claims about the compilation *)

\* C2 (the claim as stated): when two non-outdoor rooms share an edge, the
\* compiled wall array holds no two non-door segments covering the same
\* stretch of that edge.
C2_SharedEdgeWalledOnce ==
    \A r \in Runs :
        (pc[r] = "done" /\ DistinctRooms(r)) =>
            \A i, j \in DOMAIN wallsData[r] :
                (i < j /\ ~IsDoorRecord(wallsData[r][i]) /\ ~IsDoorRecord(wallsData[r][j]))
                    => ~SameStretch(wallsData[r][i].c, wallsData[r][j].c)

NotesLessId(notes) ==
    [k \in DOMAIN notes |-> [x |-> notes[k].x, y |-> notes[k].y,
                              icon |-> notes[k].icon, text |-> notes[k].text]]

\* the host answered the journal creations of both runs alike
SameHostAnswers ==
    /\ Len(journals[1]) = Len(journals[2])
    /\ \A k \in DOMAIN journals[1] : (journals[1][k] = 0) <=> (journals[2][k] = 0)

\* C7: with generateWalls false no wall record reaches the host, neither a
\* door nor a sub-segment, while the lights and notes handed over are those
\* of the same input compiled with generateWalls true (the notes up to the
\* journal ids the host assigns).
C7_WallsSkippedOnly ==
    /\ \A r \in Runs : input[r].options.generateWalls = FALSE => hostWalls[r] = <<>>
    /\ ( /\ pc[1] = "done" /\ pc[2] = "done"
         /\ input[1].options.generateWalls = FALSE
         /\ input[2].options.generateWalls = TRUE
         /\ [input[1] EXCEPT !.options = input[2].options] = input[2]
         /\ SameHostAnswers )
       => /\ hostLights[1] = hostLights[2]
          /\ NotesLessId(hostNotes[1]) = NotesLessId(hostNotes[2])

\* both runs are over, the one without walls handed over lights and notes,
\* the other one its walls too
C7_Witness ==
    /\ pc[1] = "done" /\ pc[2] = "done"
    /\ input[1].options.generateWalls = FALSE
    /\ input[2].options.generateWalls = TRUE
    /\ SameHostAnswers
    /\ Len(wallsData[1]) > 1
    /\ hostWalls[1] = <<>>
    /\ Len(hostWalls[2]) > 1
    /\ Len(hostLights[1]) = 2
    /\ Len(hostNotes[1]) = 2

\* the door records the line primitives with two different endpoints give,
\* in input order
ExpectedDoors(r) ==
    LET lines == QuerySelectorAll(input[r].svg, "line")
        kept  == SelectSeq(lines, LAMBDA l : ~(l.x1 = l.x2 /\ l.y1 = l.y2))
        xf    == TransformOf(input[r])
    IN  [k \in 1..Len(kept) |->
            [c |-> << kept[k].x1 * xf.scaleX + xf.offsetX,
                      kept[k].y1 * xf.scaleY + xf.offsetY,
                      kept[k].x2 * xf.scaleX + xf.offsetX,
                      kept[k].y2 * xf.scaleY + xf.offsetY >>,
             door |-> 1, ds |-> 0]]

\* C8: the wall array begins with one closed door record per line primitive
\* whose endpoints differ, in input order and without deduplication, and
\* every record after them is a non-door sub-segment; the host receives the
\* array in that order.
C8_DoorsFirst ==
    \A r \in Runs :
        (pc[r] \notin {"idle", "start"} /\ input[r].svg.tag = "svg") =>
            LET d == ExpectedDoors(r)
                w == wallsData[r]
            IN  /\ Len(w) >= Len(d)
                /\ \A k \in 1..Len(d) : IsDoorRecord(w[k]) /\ w[k] = d[k]
                /\ \A k \in (Len(d) + 1)..Len(w) : ~IsDoorRecord(w[k])
                /\ hostWalls[r] # <<>> => hostWalls[r] = w

\* a layout with a zero-length line and a repeated door was compiled and its
\* walls, three doors and then sub-segments, were handed over
C8_Witness ==
    /\ pc[1] = "done"
    /\ Len(QuerySelectorAll(input[1].svg, "line")) = 4
    /\ Len(doorSegments[1]) = 3
    /\ doorSegments[1][1] = doorSegments[1][3]
    /\ Len(wallsData[1]) > 3
    /\ hostWalls[1] = wallsData[1]

\* C9: a shape whose room identifier equals the id of a metadata entry is
\* bound to the first entry with that id, wherever shape and entry stand and
\* however far the positional fallback has advanced.
C9_IdMatchBinds ==
    [][\A r \in Runs :
          (RectStep(r) /\ NonDegenerate(Rects(r)[ei[r]]) /\ HasIdMatch(r, Rects(r)[ei[r]]))
              => LET rooms == input[r].outline.rooms
                     first == SetMin({ i \in DOMAIN rooms : rooms[i].id = Rects(r)[ei[r]].roomId })
                 IN  /\ Len(journalEntries'[r]) = Len(journalEntries[r]) + 1
                     /\ SubSeq(journalEntries'[r], 1, Len(journalEntries[r])) = journalEntries[r]
                     /\ Last(journalEntries'[r]).name = rooms[first].name
                     /\ Last(journalEntries'[r]).pages[1].content = BuildJournalHtml(rooms[first])
                     /\ Last(journalEntries'[r]).c
                          = <<Last(lightsData'[r]).x, Last(lightsData'[r]).y>>]_vars

\* the first shape took the first entry by position, the second one was then
\* bound by its identifier to the third entry
C9_Witness ==
    /\ Len(input[1].outline.rooms) = 3
    /\ Len(Rects(1)) = 2
    /\ Rects(1)[1].roomId = Null /\ Rects(1)[2].roomId = "b"
    /\ ei[1] = 3
    /\ roomIndex[1] = 1
    /\ Len(journalEntries[1]) = 2
    /\ journalEntries[1][1].name = "Hall"
    /\ journalEntries[1][2].name = "Yard"

\* C10 (the claim as stated): a shape without identifier match is bound by
\* the fallback to the first metadata entry no earlier shape has consumed, by
\* identifier or by fallback, and to none when all are consumed; an entry
\* bound to an earlier shape is not handed out again.
C10_FallbackSkipsConsumed ==
    [][\A r \in Runs :
          (RectStep(r) /\ NonDegenerate(Rects(r)[ei[r]]) /\ ~HasIdMatch(r, Rects(r)[ei[r]]))
              => LET rooms == input[r].outline.rooms
                     free == { i \in DOMAIN rooms :
                                 \A k \in DOMAIN journalEntries[r] :
                                     journalEntries[r][k].name # rooms[i].name }
                 IN  IF free = {}
                     THEN journalEntries'[r] = journalEntries[r]
                     ELSE /\ Len(journalEntries'[r]) = Len(journalEntries[r]) + 1
                          /\ Last(journalEntries'[r]).name = rooms[SetMin(free)].name]_vars

\* the step taken is an iteration of one of the five forEach loops of run r
ShapeStep(r) ==
    /\ pc[r] \in {"rects", "circles", "ellipses", "polygons", "paths"}
    /\ ei'[r] = ei[r] + 1

\* the element that iteration visits
Current(r) == AllShapes(r)[ei[r]]

\* attribute texts that describe no outline: fewer than three points, or a
\* path that draws nothing
FlatTexts == { <<>>, PointsText.Two, PathText.Move }

\* the element has an area to enclose
Sound(el) ==
    CASE el.tag = "rect" -> el.width # 0 /\ el.height # 0
      [] el.tag = "circle" -> el.r # 0
      [] el.tag = "ellipse" -> el.rx # 0 /\ el.ry # 0
      [] el.tag = "polygon" -> el.points \notin FlatTexts
      [] el.tag = "path" -> el.d \notin FlatTexts

\* C11: a shape that no metadata entry is found for, by identifier or by
\* position, adds its light and, unless it is outdoor, its wall sub-segments
\* after the records already there; it adds no journal entry, and a
\* compilation holds no more notes than journal entries.
C11_UnmatchedStillBuilt ==
    /\ [][\A r \in Runs :
            ( /\ ShapeStep(r) /\ Sound(Current(r))
              /\ ~HasIdMatch(r, Current(r))
              /\ roomIndex[r] >= Len(input[r].outline.rooms) )
              => /\ journalEntries'[r] = journalEntries[r]
                 /\ Len(lightsData'[r]) = Len(lightsData[r]) + 1
                 /\ Current(r).outdoor # "true"
                      => /\ Len(wallsData'[r]) > Len(wallsData[r])
                         /\ SubSeq(wallsData'[r], 1, Len(wallsData[r])) = wallsData[r]
                         /\ \A k \in (Len(wallsData[r]) + 1)..Len(wallsData'[r]) :
                                ~IsDoorRecord(wallsData'[r][k])]_vars
    /\ [](\A r \in Runs : /\ Len(notesData[r]) <= Len(journalEntries[r])
                           /\ Len(hostNotes[r]) <= Len(journalEntries[r]))

\* two rooms were compiled with one metadata entry: the second one found
\* nothing left, and there are two lights, walls of both, one journal entry
\* and one note at most
C11_Witness ==
    /\ pc[1] = "done"
    /\ Len(input[1].outline.rooms) = 1
    /\ Len(AllShapes(1)) = 2
    /\ \A k \in 1..2 : /\ Sound(AllShapes(1)[k])
                        /\ AllShapes(1)[k].roomId = Null
                        /\ AllShapes(1)[k].outdoor = Null
    /\ Len(lightsData[1]) = 2
    /\ Len(journalEntries[1]) = 1
    /\ Len(hostNotes[1]) = 1
    /\ Len(wallsData[1]) >= Len(doorSegments[1]) + 8

\* the centroid of a shape in the layout's own coordinates: the centre of a
\* rectangle, circle or ellipse, the mean of the points of a polygon, the
\* mean of the midpoints of the edges of a path
CentroidOf(el) ==
    CASE el.tag = "rect" -> <<Frac(2 * el.x + el.width, 2), Frac(2 * el.y + el.height, 2)>>
      [] el.tag \in {"circle", "ellipse"} -> <<Q(el.cx), Q(el.cy)>>
      [] el.tag = "polygon" /\ el.points = PointsText.Quad -> <<Q(130), Q(40)>>
      [] el.tag = "path" /\ el.d = PathText.Quad -> <<Q(130), Q(140)>>
      [] el.tag = "path" /\ el.d = PathText.Open -> <<Q(45), Q(20)>>

\* the compilation of run r read an svg root and is past its first step
Compiling(r) == pc[r] \notin {"idle", "start"} /\ input[r].svg.tag \in {"svg", "SVG"}

\* the shapes with an area among those run r has visited, in visiting order
SoundSeen(r) == SelectSeq(SubSeq(AllShapes(r), 1, ei[r] - 1), Sound)

\* C12: the lights of a compilation are one per shape with an area visited
\* so far, in visiting order, each at the transformed centroid of its shape,
\* whether the shape is outdoor, bound to metadata or not; the host receives
\* all of them whatever generateWalls is.
C12_LightPerShape ==
    \A r \in Runs :
        Compiling(r) =>
            LET xf == TransformOf(input[r])
                seen == SoundSeen(r)
            IN  /\ Len(lightsData[r]) = Len(seen)
                /\ \A k \in DOMAIN seen :
                      /\ lightsData[r][k].x
                           = RAdd(RMul(CentroidOf(seen[k])[1], Q(xf.scaleX)), Q(xf.offsetX))
                      /\ lightsData[r][k].y
                           = RAdd(RMul(CentroidOf(seen[k])[2], Q(xf.scaleY)), Q(xf.offsetY))
                /\ pc[r] \in {"notes", "done"} => hostLights[r] = lightsData[r]
                /\ pc[r] \notin {"notes", "done"} => hostLights[r] = <<>>

\* an outdoor path, a polygon of two points and a room were compiled with
\* generateWalls false on a scaled and shifted canvas: the host holds two
\* lights, the second one at the centroid of the path
C12_Witness ==
    /\ pc[1] = "done"
    /\ input[1].options.generateWalls = FALSE
    /\ input[1].sceneX = 100
    /\ Len(AllShapes(1)) = 3
    /\ AllShapes(1)[2].tag = "polygon" /\ ~Sound(AllShapes(1)[2])
    /\ AllShapes(1)[3].tag = "path" /\ AllShapes(1)[3].outdoor = "true"
    /\ Len(hostLights[1]) = 2
    /\ hostLights[1][2].x = Q(360) /\ hostLights[1][2].y = Q(610)

\* the root element of the layout of run r is no svg element
ForeignRoot(r) == input[r].svg.tag \in {"parsererror", "html"}

\* C13: when the root element is not an svg container the first step of the
\* compilation is its last: it returns to createSceneFromState, which goes
\* on to return the scene, and it has touched nothing; no wall, light, note,
\* journal folder or journal entry exists at any time.
C13_ForeignRootSkipped ==
    /\ [][\A r \in Runs :
            (ForeignRoot(r) /\ pc[r] = "start" /\ pc'[r] # "start")
                => pc'[r] = "done" /\ UNCHANGED <<localVars, hostVars>>]_vars
    /\ [](\A r \in Runs :
            ForeignRoot(r)
                => /\ pc[r] \in {"start", "done"}
                   /\ wallsData[r] = <<>> /\ lightsData[r] = <<>> /\ notesData[r] = <<>>
                   /\ journalEntries[r] = <<>>
                   /\ hostWalls[r] = <<>> /\ hostLights[r] = <<>> /\ hostNotes[r] = <<>>
                   /\ hostFolders = <<>> /\ hostJournals = <<>>)

\* a document with an html root that holds a door, a room and room metadata
\* was handed in, and the compilation is over
C13_Witness ==
    /\ pc[1] = "done"
    /\ input[1].svg.tag = "html"
    /\ Len(QuerySelectorAll(input[1].svg, "line")) = 1
    /\ Len(AllShapes(1)) = 1
    /\ Len(input[1].outline.rooms) = 1
    /\ hostWalls[1] = <<>>

\* every note of run r names a journal the host created for run r
NotesNameOwnJournals(r) ==
    \A k \in DOMAIN hostNotes[r] :
        \E j \in DOMAIN journals[r] : journals[r][j] = hostNotes[r][k].entryId

\* C14: two compilations of the same layout, room metadata, canvas, offset
\* and options, run one after the other or interleaved, hand the host the
\* same walls and lights, and the same notes up to the journal ids the host
\* returned to each, when the host answered their journal creations alike.
C14_SameInputSameArrays ==
    ( /\ pc[1] = "done" /\ pc[2] = "done"
      /\ input[1] = input[2]
      /\ SameHostAnswers )
    => /\ hostWalls[1] = hostWalls[2]
       /\ hostLights[1] = hostLights[2]
       /\ NotesLessId(hostNotes[1]) = NotesLessId(hostNotes[2])
       /\ NotesNameOwnJournals(1) /\ NotesNameOwnJournals(2)

\* the same two rooms were compiled twice with walls wanted, both times the
\* host created both journals, and walls, lights and notes were handed over
C14_Witness ==
    /\ pc[1] = "done" /\ pc[2] = "done"
    /\ input[1] = input[2]
    /\ input[1].options.generateWalls = TRUE
    /\ SameHostAnswers
    /\ Len(hostWalls[1]) > 1
    /\ Len(hostLights[1]) = 2
    /\ Len(hostNotes[1]) = 2 /\ Len(hostNotes[2]) = 2
    /\ hostNotes[1][1].entryId # hostNotes[2][1].entryId

\* run r took no step
Idle(r) == pc'[r] = pc[r] /\ ei'[r] = ei[r] /\ ji'[r] = ji[r]

\* a sub-segment record from (x1, y1) to (x2, y2)
Sub(x1, y1, x2, y2) == [c |-> <<Q(x1), Q(y1), Q(x2), Q(y2)>>]

\* the light of a room centred at (x, y) with bounding radius rad
LightAt(x, y, rad) ==
    [x |-> Q(x), y |-> Q(y), rotation |-> 0,
     config |-> [dim |-> Q(2 * rad), bright |-> Q(rad), color |-> "#ffc880",
                 alpha |-> <<1, 5>>]]

\* what the compilation of LayoutLeft and of LayoutRight emits on its own
AloneWalls(in) ==
    IF in = LayoutLeft
    THEN << Sub(0, 0, 100, 0), Sub(100, 0, 100, 100), Sub(100, 100, 0, 100),
            Sub(0, 100, 0, 0) >>
    ELSE << [c |-> <<100, 30, 100, 70>>, door |-> 1, ds |-> 0],
            Sub(100, 0, 200, 0), Sub(200, 0, 200, 100), Sub(200, 100, 100, 100),
            Sub(100, 100, 100, 70), Sub(100, 30, 100, 0) >>

AloneLights(in) ==
    IF in = LayoutLeft THEN <<LightAt(50, 50, 50)>> ELSE <<LightAt(150, 50, 50)>>

AloneNotes(in) ==
    IF in = LayoutLeft
    THEN <<[x |-> Q(50), y |-> Q(50), icon |-> "icons/svg/book.svg", text |-> "Hall"]>>
    ELSE <<[x |-> Q(150), y |-> Q(50), icon |-> "icons/svg/book.svg", text |-> "Yard"]>>

\* C15: while two compilations interleave, a step of one leaves the door
\* list, the fallback cursor, the arrays and the host documents of the other
\* as they were; and two compilations of independent layouts each hand the
\* host the walls, lights and notes they produce alone (a note for every
\* journal the host created).
C15_RunsApart ==
    /\ [][\A r \in Runs :
            Idle(r) => /\ doorSegments'[r] = doorSegments[r]
                       /\ roomIndex'[r] = roomIndex[r]
                       /\ wallsData'[r] = wallsData[r]
                       /\ lightsData'[r] = lightsData[r]
                       /\ journalEntries'[r] = journalEntries[r]
                       /\ notesData'[r] = notesData[r]
                       /\ hostWalls'[r] = hostWalls[r]
                       /\ hostLights'[r] = hostLights[r]
                       /\ hostNotes'[r] = hostNotes[r]]_vars
    /\ [](\A r \in Runs :
            (pc[r] = "done" /\ {input[1], input[2]} = {LayoutLeft, LayoutRight})
                => /\ hostWalls[r] = AloneWalls(input[r])
                   /\ hostLights[r] = AloneLights(input[r])
                   /\ NotesLessId(hostNotes[r])
                        = IF journals[r] = <<0>> THEN <<>> ELSE AloneNotes(input[r]))

\* the room and its neighbour with the door were compiled side by side: the
\* neighbour read its door before the room built its walls, the room bound
\* its metadata before the neighbour did, and both have handed over walls,
\* a light and a note
C15_Witness ==
    /\ pc[1] = "done" /\ pc[2] = "done"
    /\ input[1] = LayoutLeft /\ input[2] = LayoutRight
    /\ Len(hostWalls[1]) = 4 /\ Len(hostWalls[2]) = 6
    /\ Len(hostNotes[1]) = 1 /\ Len(hostNotes[2]) = 1
    /\ hostNotes[1][1].entryId = 1 /\ hostNotes[2][1].entryId = 2
    /\ hostFolders[1].run = 2

\* the width and height a bounds declaration declares
DeclaredExtent(viewBox) ==
    CASE viewBox \in {BoundsText.Plain, BoundsText.Commas, BoundsText.Blank} -> <<500, 500>>
      [] viewBox = BoundsText.Shifted -> <<600, 600>>

\* the transform the layout of run r calls for: canvas size over declared
\* extent, over 1000 without a declaration, and the scene offset
DueTransform(r) ==
    LET in == input[r]
        ext == IF in.svg.viewBox = <<>> THEN <<1000, 1000>>
               ELSE DeclaredExtent(in.svg.viewBox)
    IN  [scaleX |-> Frac(in.targetW, ext[1]), scaleY |-> Frac(in.targetH, ext[2]),
         offsetX |-> Q(in.sceneX), offsetY |-> Q(in.sceneY)]

DueX(r, x) == RAdd(RMul(x, DueTransform(r).scaleX), DueTransform(r).offsetX)
DueY(r, y) == RAdd(RMul(y, DueTransform(r).scaleY), DueTransform(r).offsetY)

\* the x and y of the corners of the rectangles and of the ends of the lines
\* of the layout of run r, transformed
CornerXs(r) ==
    LET lines == QuerySelectorAll(input[r].svg, "line")
    IN  { DueX(r, Q(x)) :
            x \in { Rects(r)[k].x : k \in DOMAIN Rects(r) }
                  \cup { Rects(r)[k].x + Rects(r)[k].width : k \in DOMAIN Rects(r) }
                  \cup { lines[k].x1 : k \in DOMAIN lines }
                  \cup { lines[k].x2 : k \in DOMAIN lines } }

CornerYs(r) ==
    LET lines == QuerySelectorAll(input[r].svg, "line")
    IN  { DueY(r, Q(y)) :
            y \in { Rects(r)[k].y : k \in DOMAIN Rects(r) }
                  \cup { Rects(r)[k].y + Rects(r)[k].height : k \in DOMAIN Rects(r) }
                  \cup { lines[k].y1 : k \in DOMAIN lines }
                  \cup { lines[k].y2 : k \in DOMAIN lines } }

\* the lines of the layout of run r whose ends differ
TrueLines(r) ==
    SelectSeq(QuerySelectorAll(input[r].svg, "line"),
              LAMBDA l : ~(l.x1 = l.x2 /\ l.y1 = l.y2))

\* C19 (the claim as stated): the scale of a compilation is the canvas size
\* over the extent of the declared bounds, over 1000 without a declaration,
\* and every coordinate handed out is the native one times that scale plus
\* the scene offset: the ends of the doors, the lights at the centroids, the
\* notes at the lights of their rooms, and the ends of the sub-segments of
\* a layout of rectangles at corners of rooms and ends of doors.
C19_OneTransform ==
    \A r \in Runs :
        Compiling(r) =>
            LET lines == TrueLines(r)
                seen == SoundSeen(r)
            IN  /\ Len(doorSegments[r]) = Len(lines)
                /\ \A k \in DOMAIN lines :
                      /\ Q(doorSegments[r][k].c[1]) = DueX(r, Q(lines[k].x1))
                      /\ Q(doorSegments[r][k].c[2]) = DueY(r, Q(lines[k].y1))
                      /\ Q(doorSegments[r][k].c[3]) = DueX(r, Q(lines[k].x2))
                      /\ Q(doorSegments[r][k].c[4]) = DueY(r, Q(lines[k].y2))
                /\ \A k \in DOMAIN lightsData[r] :
                      /\ lightsData[r][k].x = DueX(r, CentroidOf(seen[k])[1])
                      /\ lightsData[r][k].y = DueY(r, CentroidOf(seen[k])[2])
                /\ \A k \in DOMAIN notesData[r] :
                      \E j \in DOMAIN lightsData[r] :
                          /\ notesData[r][k].x = lightsData[r][j].x
                          /\ notesData[r][k].y = lightsData[r][j].y
                /\ Len(AllShapes(r)) = Len(Rects(r)) =>
                      \A k \in DOMAIN wallsData[r] :
                          ~IsDoorRecord(wallsData[r][k]) =>
                              /\ wallsData[r][k].c[1] \in CornerXs(r)
                              /\ wallsData[r][k].c[2] \in CornerYs(r)
                              /\ wallsData[r][k].c[3] \in CornerXs(r)
                              /\ wallsData[r][k].c[4] \in CornerYs(r)

-----------------------------------------------------------------------------
(* Claims about the shape normalisers, checked under EdgeSpec *)

Normalized(tag) == nPc = "ret" /\ nShape.tag = tag

\* the edge from (x1, y1) to (x2, y2), whole coordinates
EdgeQ(x1, y1, x2, y2) == <<Q(x1), Q(y1), Q(x2), Q(y2)>>

\* the length of an edge parallel to an axis
AxisLength(e) ==
    LET dx == RSub(e[3], e[1])
        dy == RSub(e[4], e[2])
    IN  IF dx[1] = 0 THEN <<Abs(dy[1]), dy[2]>> ELSE <<Abs(dx[1]), dx[2]>>

RECURSIVE TotalAxisLength(_)
TotalAxisLength(edges) ==
    IF edges = <<>> THEN Q(0)
    ELSE RAdd(AxisLength(Head(edges)), TotalAxisLength(Tail(edges)))

\* C16: a rectangle with w # 0 and h # 0 gives the four edges
\* (x,y)->(x+w,y), (x+w,y)->(x+w,y+h), (x+w,y+h)->(x,y+h), (x,y+h)->(x,y) in
\* that order, of total length 2(w+h) when w and h are positive; a rectangle
\* with w = 0 or h = 0 gives no edges.
C16_RectFourEdges ==
    Normalized("rect") =>
        LET x == nShape.x
            y == nShape.y
            w == nShape.width
            h == nShape.height
        IN  IF w # 0 /\ h # 0
            THEN /\ nEdges = << EdgeQ(x, y, x + w, y), EdgeQ(x + w, y, x + w, y + h),
                                EdgeQ(x + w, y + h, x, y + h), EdgeQ(x, y + h, x, y) >>
                 /\ (w > 0 /\ h > 0) => TotalAxisLength(nEdges) = Q(2 * (w + h))
            ELSE nEdges = <<>>

\* the rectangle (0, 0, 10, 10) gave four edges of total length 40
C16_Witness ==
    /\ Normalized("rect")
    /\ <<nShape.x, nShape.y, nShape.width, nShape.height>> = <<0, 0, 10, 10>>
    /\ Len(nEdges) = 4
    /\ TotalAxisLength(nEdges) = Q(40)

\* the points p0, ..., pn of the path texts of the form M p0 L p1 ... L pn Z
PolylinePoints ==
    [d \in { PathText.Triangle, PathText.Square, PathText.Decimal, PathText.There, PathText.Blanks, PathText.Quad,
             PathText.Near, PathText.Half } |->
        CASE d \in {PathText.Triangle, PathText.Blanks} -> << <<Q(0), Q(0)>>, <<Q(10), Q(0)>>, <<Q(10), Q(10)>> >>
          [] d = PathText.Square ->
               << <<Q(0), Q(0)>>, <<Q(10), Q(0)>>, <<Q(10), Q(10)>>, <<Q(0), Q(10)>> >>
          [] d = PathText.Decimal -> << <<<<-3, 2>>, Q(2)>>, <<Q(4), Q(2)>>, <<Q(4), <<-7, 2>>>> >>
          [] d = PathText.There -> << <<Q(0), Q(0)>>, <<Q(10), Q(0)>> >>
          [] d = PathText.Quad ->
               << <<Q(100), Q(100)>>, <<Q(160), Q(100)>>, <<Q(160), Q(180)>>,
                  <<Q(100), Q(180)>> >>
          [] d = PathText.Near ->
               << <<Q(0), Q(0)>>, <<Q(10), Q(0)>>, <<Q(10), Q(10)>>, <<<<3, 10>>, Q(0)>> >>
          [] d = PathText.Half -> << <<Q(0), Q(0)>>, <<Q(10), Q(0)>>, <<<<1, 2>>, Q(0)>> >>]

\* point a is farther than 1/2 from point b
FartherThanHalf(a, b) ==
    LET dx == RSub(a[1], b[1])
        dy == RSub(a[2], b[2])
    IN  RLt(<<1, 4>>, RAdd(RMul(dx, dx), RMul(dy, dy)))

\* C17: a path M p0 L p1 ... L pn Z in absolute coordinates whose pn is
\* farther than 0.5 from p0 gives exactly n + 1 edges, p(i-1)->p(i) for
\* i = 1..n in order and then pn->p0; "M0,0 L10,0 L10,10 Z" gives three
\* edges, the third one ending at (0, 0).
C17_PolylineClosed ==
    (Normalized("path") /\ nShape.d \in DOMAIN PolylinePoints) =>
        LET pts == PolylinePoints[nShape.d]
            n == Len(pts) - 1
        IN  FartherThanHalf(pts[n + 1], pts[1]) =>
                /\ Len(nEdges) = n + 1
                /\ \A i \in 1..n :
                      nEdges[i] = <<pts[i][1], pts[i][2], pts[i + 1][1], pts[i + 1][2]>>
                /\ nEdges[n + 1] = <<pts[n + 1][1], pts[n + 1][2], pts[1][1], pts[1][2]>>

\* "M0,0 L10,0 L10,10 Z" gave three edges, the third one from (10, 10) to
\* (0, 0)
C17_Witness ==
    /\ Normalized("path")
    /\ nShape.d = PathText.Triangle
    /\ Len(nEdges) = 3
    /\ nEdges[3] = EdgeQ(10, 10, 0, 0)

\* C18 (the claim as stated): the edge list built for a shape of any kind
\* that is not dropped is a closed loop: the end point of its last edge is
\* the start point of its first edge.
C18_ClosedLoop ==
    (nPc = "ret" /\ nEdges # <<>>) =>
        /\ Last(nEdges)[3] = nEdges[1][1]
        /\ Last(nEdges)[4] = nEdges[1][2]

-----------------------------------------------------------------------------
(* Further claims about _splitWallForDoors, checked under SplitSpec *)

InUnit(t) == RLe(Q(0), t) /\ RLe(t, Q(1))

\* C21: every interval recorded for a matched door satisfies
\* 0 <= t1 <= t2 <= 1, and every emitted sub-segment lies within the wall:
\* its start and end parameters are both in [0, 1] with start < end.
C21_WithinWall ==
    (SplitReturned /\ WallLen2(sWall) > 0) =>
        /\ \A i \in DOMAIN sOverlaps :
               /\ RLe(Q(0), sOverlaps[i].t1)
               /\ RLe(sOverlaps[i].t1, sOverlaps[i].t2)
               /\ RLe(sOverlaps[i].t2, Q(1))
        /\ \A k \in DOMAIN sResult :
               /\ InUnit(SegStart(sWall, sResult[k]))
               /\ InUnit(SegEnd(sWall, sResult[k]))
               /\ RLt(SegStart(sWall, sResult[k]), SegEnd(sWall, sResult[k]))

\* the interval o lies inside the merged range m
RangeHolds(m, o) == RLe(m.t1, o.t1) /\ RLe(o.t2, m.t2)

\* the recorded intervals lying inside the merged range m
HeldBy(m) == { i \in DOMAIN sOverlaps : RangeHolds(m, sOverlaps[i]) }

\* C22: after the merge step the door ranges are sorted by t1, any two
\* consecutive ranges are more than 0.001 apart, every recorded interval is
\* contained in exactly one merged range, and each merged range runs from the
\* smallest t1 to the largest t2 of the intervals merged into it.
C22_MergedRanges ==
    (SplitReturned /\ sOverlaps # <<>>) =>
        /\ \A k \in 1..(Len(sMerged) - 1) :
               /\ RLe(sMerged[k].t1, sMerged[k + 1].t1)
               /\ RLt(RAdd(sMerged[k].t2, MergeEps), sMerged[k + 1].t1)
        /\ \A i \in DOMAIN sOverlaps :
               Cardinality({ k \in DOMAIN sMerged : RangeHolds(sMerged[k], sOverlaps[i]) }) = 1
        /\ \A k \in DOMAIN sMerged :
               /\ HeldBy(sMerged[k]) # {}
               /\ \A i \in HeldBy(sMerged[k]) :
                      /\ RLe(sMerged[k].t1, sOverlaps[i].t1)
                      /\ RLe(sOverlaps[i].t2, sMerged[k].t2)
               /\ \E i \in HeldBy(sMerged[k]) : sOverlaps[i].t1 = sMerged[k].t1
               /\ \E i \in HeldBy(sMerged[k]) : sOverlaps[i].t2 = sMerged[k].t2

-----------------------------------------------------------------------------
(* Further claims about the shape normalisers, checked under EdgeSpec *)

\* the points the points attributes of the model list
PolygonPoints ==
    [t \in { <<>>, PointsText.Quad, PointsText.Two, PointsText.Triangle, PointsText.Padded,
             PointsText.Odd, PointsText.Comma, PointsText.One, PointsText.Decimal } |->
        CASE t = <<>> -> <<>>
          [] t = PointsText.Quad ->
               << <<Q(100), Q(0)>>, <<Q(160), Q(0)>>, <<Q(160), Q(80)>>, <<Q(100), Q(80)>> >>
          [] t = PointsText.Two -> << <<Q(0), Q(0)>>, <<Q(10), Q(0)>> >>
          [] t \in {PointsText.Triangle, PointsText.Padded, PointsText.Odd, PointsText.Comma} ->
               << <<Q(0), Q(0)>>, <<Q(10), Q(0)>>, <<Q(10), Q(10)>> >>
          [] t = PointsText.One -> << <<Q(7), Q(7)>> >>
          [] t = PointsText.Decimal ->
               << <<<<-3, 2>>, Q(2)>>, <<Q(4), Q(2)>>, <<Q(4), <<-7, 2>>>>, <<Q(0), Q(0)>> >>]

\* the sum of the c-th coordinates of the first k points
RECURSIVE CoordSum(_, _, _)
CoordSum(pts, c, k) ==
    IF k = 0 THEN Q(0) ELSE RAdd(CoordSum(pts, c, k - 1), pts[k][c])

MeanPoint(pts) ==
    << RDiv(CoordSum(pts, 1, Len(pts)), Q(Len(pts))),
       RDiv(CoordSum(pts, 2, Len(pts)), Q(Len(pts))) >>

\* C23: a polygon with n >= 3 points yields exactly n edges, point i to
\* point i + 1 for each i and the last point to the first, with centroid the
\* arithmetic mean of the n points; a polygon with fewer than 3 points
\* yields no edges.
C23_PolygonEdges ==
    Normalized("polygon") =>
        LET pts == PolygonPoints[nShape.points]
            n == Len(pts)
        IN  IF n >= 3
            THEN /\ Len(nEdges) = n
                 /\ \A i \in 1..(n - 1) :
                       nEdges[i] = <<pts[i][1], pts[i][2], pts[i + 1][1], pts[i + 1][2]>>
                 /\ nEdges[n] = <<pts[n][1], pts[n][2], pts[1][1], pts[1][2]>>
                 /\ nCentre = MeanPoint(pts)
            ELSE nEdges = <<>>

\* "-1.5,2 4,2 4,-3.5 0,0" gave four edges, the last one back to (-1.5, 2),
\* and the centroid (1.625, 0.125)
C23_Witness ==
    /\ Normalized("polygon")
    /\ nShape.points = PointsText.Decimal
    /\ Len(nEdges) = 4
    /\ nEdges[4] = <<Q(0), Q(0), <<-3, 2>>, Q(2)>>
    /\ nCentre = << <<13, 8>>, <<1, 8>> >>

\* the while loop is about to read, as a command, a token among letters
AtCommand(letters) ==
    /\ nPc = "loop"
    /\ nSt.i <= Len(nTokens)
    /\ nTokens[nSt.i] \in { <<c>> : c \in letters }

Numbers(p) == ~IsNaN(p[1]) /\ ~IsNaN(p[2])

CurrentPoint(st) == <<st.cx, st.cy>>
SubpathStart(st) == <<st.startX, st.startY>>

\* C24: on a Z or z command the interpreter emits a closing edge to the
\* subpath start only if the current point is farther than 0.5 units from
\* it, and in both cases the current point becomes the subpath start, so a
\* relative command that follows is measured from the subpath start.
C24_CloseResets ==
    /\ [][AtCommand({"Z", "z"}) =>
            LET cur == CurrentPoint(nSt)
                start == SubpathStart(nSt)
            IN  /\ nSt'.edges =
                      IF Numbers(cur) /\ Numbers(start) /\ FartherThanHalf(cur, start)
                      THEN Append(nSt.edges, <<cur[1], cur[2], start[1], start[2]>>)
                      ELSE nSt.edges
                /\ CurrentPoint(nSt') = start
                /\ SubpathStart(nSt') = start
                /\ nSt'.i = nSt.i + 1]_vars
    /\ []((Normalized("path") /\ nShape.d = PathText.CloseThen) =>
            nEdges = << EdgeQ(5, 5, 15, 5), EdgeQ(15, 5, 15, 15), EdgeQ(15, 15, 5, 5),
                        EdgeQ(5, 5, 15, 5) >>)

\* "M0,0 L10,0 L0.3,0 Z l5,5" gave three edges: no closing edge from
\* (0.3, 0), and the relative line drawn from (0, 0) to (5, 5)
C24_Witness ==
    /\ Normalized("path")
    /\ nShape.d = PathText.NearThen
    /\ nEdges = << EdgeQ(0, 0, 10, 0), <<Q(10), Q(0), <<3, 10>>, Q(0)>>, EdgeQ(0, 0, 5, 5) >>

\* the target point of the arc command the loop is about to read: its last
\* two arguments, added to the current point for the relative form
ArcTarget ==
    LET ex == NumAt(nTokens, nSt.i + 6)
        ey == NumAt(nTokens, nSt.i + 7)
    IN  IF nTokens[nSt.i] = <<"A">> THEN <<ex, ey>>
        ELSE <<FAdd(nSt.cx, ex), FAdd(nSt.cy, ey)>>

\* C25: each A or a command adds exactly 8 edges of equal length lying on
\* the straight line from the current point to the arc's target point,
\* chained end to start with the last one ending at the target; they are
\* fixed by the current point and the target alone, whatever the radii, the
\* rotation and the flags are, and the current point becomes the target.
C25_ArcEightEdges ==
    [][(AtCommand({"A", "a"}) /\ Numbers(CurrentPoint(nSt)) /\ Numbers(ArcTarget)) =>
          LET cur == CurrentPoint(nSt)
              target == ArcTarget
              before == Len(nSt.edges)
              new(s) == nSt'.edges[before + s]
              eighth == <<RDiv(RSub(target[1], cur[1]), Q(8)),
                          RDiv(RSub(target[2], cur[2]), Q(8))>>
          IN  /\ Len(nSt'.edges) = before + 8
              /\ SubSeq(nSt'.edges, 1, before) = nSt.edges
              /\ <<new(1)[1], new(1)[2]>> = cur
              /\ \A s \in 1..7 : <<new(s)[3], new(s)[4]>> = <<new(s + 1)[1], new(s + 1)[2]>>
              /\ <<new(8)[3], new(8)[4]>> = target
              /\ \A s \in 1..8 :
                    <<RSub(new(s)[3], new(s)[1]), RSub(new(s)[4], new(s)[2])>> = eighth
              /\ CurrentPoint(nSt') = target
              /\ SubpathStart(nSt') = SubpathStart(nSt)
              /\ nSt'.i = nSt.i + 8]_vars

\* "M0,0 A9,3 45 1 0 8,0 L8,8 Z" gave the eight edges from (0, 0) to (8, 0)
\* in steps of 1, then the line to (8, 8) and the closing edge
C25_Witness ==
    /\ Normalized("path")
    /\ nShape.d = PathText.ArcWide
    /\ nEdges = [s \in 1..8 |-> EdgeQ(s - 1, 0, s, 0)] \o <<EdgeQ(8, 0, 8, 8), EdgeQ(8, 8, 0, 0)>>

-----------------------------------------------------------------------------
(* The path interpreter run to its end, checked under EdgeLive *)

SupportedLetters == {"M", "m", "L", "l", "H", "h", "V", "v", "A", "a", "Z", "z"}

\* the while loop is about to read a token that is no supported command
AtOtherToken ==
    /\ nPc = "loop"
    /\ nSt.i <= Len(nTokens)
    /\ nTokens[nSt.i] \notin { <<c>> : c \in SupportedLetters }

\* C26: the path interpreter, once in its loop, terminates on every token
\* sequence (the call returns), each loop
\* step consuming at least one token; a token that is not a supported command
\* (C, S, Q, their lowercase forms, a stray number) is skipped: it adds no
\* edge and leaves the current point unchanged, and the supported commands
\* after it are still interpreted.
C26_SkipsAndEnds ==
    /\ [][(nPc = "loop" /\ nPc' = "loop") => nSt'.i >= nSt.i + 1]_vars
    /\ [][AtOtherToken => nSt' = [nSt EXCEPT !.i = nSt.i + 1]]_vars
    /\ [](Normalized("path") =>
            /\ nShape.d = PathText.Curve =>
                 nEdges = <<EdgeQ(0, 0, 10, 0), EdgeQ(10, 0, 10, 10), EdgeQ(10, 10, 0, 0)>>
            /\ nShape.d = PathText.Stray =>
                 nEdges = <<EdgeQ(0, 0, 10, 0), EdgeQ(10, 0, 0, 0)>>)
    /\ (nPc = "loop") ~> (nPc = "ret")

\* "M0,0 C1,1 2,2 3,3 L10,0 L10,10 Z" was read to its end: the C and its six
\* numbers were passed over, and the two lines and the closing edge were built
C26_Witness ==
    /\ Normalized("path")
    /\ nShape.d = PathText.Curve
    /\ Len(nTokens) = 17
    /\ nSt.i = 18
    /\ Len(nEdges) = 3

-----------------------------------------------------------------------------
(* Further claims about the compilation, checked under Spec *)

\* C27: a degenerate shape (a rectangle of zero width or height, a circle or
\* ellipse with a zero radius, a polygon of fewer than 3 points, a path that
\* yields no edge) contributes nothing: its iteration adds no wall
\* sub-segment, no light, no journal entry and no note, and leaves the
\* position of the positional fallback where it was.
C27_DegenerateSkipped ==
    [][\A r \in Runs :
          (ShapeStep(r) /\ ~Sound(Current(r)))
              => /\ wallsData'[r] = wallsData[r]
                 /\ lightsData'[r] = lightsData[r]
                 /\ journalEntries'[r] = journalEntries[r]
                 /\ notesData'[r] = notesData[r]
                 /\ roomIndex'[r] = roomIndex[r]
                 /\ hostVars' = hostVars]_vars

\* a circle of radius 0 and then a polygon with an area were compiled with
\* two metadata entries: the first entry went to the polygon, and there is
\* one light, one journal entry and one note
C27_Witness ==
    /\ pc[1] = "done"
    /\ input[1].options.generateWalls
    /\ Len(input[1].outline.rooms) = 2
    /\ Len(AllShapes(1)) = 2
    /\ AllShapes(1)[1].tag = "circle" /\ ~Sound(AllShapes(1)[1])
    /\ AllShapes(1)[2].tag = "polygon" /\ Sound(AllShapes(1)[2])
    /\ AllShapes(1)[2].roomId = Null
    /\ roomIndex[1] = 1
    /\ Len(lightsData[1]) = 1
    /\ Len(journalEntries[1]) = 1
    /\ journalEntries[1][1].name = input[1].outline.rooms[1].name
    /\ Len(hostNotes[1]) = 1
    /\ Len(hostWalls[1]) >= Len(doorSegments[1]) + 4

-----------------------------------------------------------------------------
(* Claims about generateImage, checked under PaintLive *)

\* the lines that open an attempt, and the verdicts written so far
AttemptLines == SelectSeq(gLog, LAMBDA l : l.msg \in {"painting", "retrying"})
VerdictLines == SelectSeq(gLog, LAMBDA l : l.msg \in {"passed", "failed"})

\* attempt k was judged, and how
Judged(k) == k <= Len(VerdictLines)
Passed(k) == Judged(k) /\ VerdictLines[k].msg = "passed"

\* the attempts so far go through the rooms in outline order, one to three
\* per room, and a room is left only after a pass or after its third attempt
AttemptsInOrder ==
    LET a == AttemptLines
    IN  /\ Len(VerdictLines) \in {Len(a), Len(a) - 1}
        /\ \A k \in DOMAIN VerdictLines :
              VerdictLines[k].i = a[k].i /\ VerdictLines[k].attempt = a[k].attempt
        /\ \A k \in DOMAIN a :
              /\ a[k].attempt \in 1..3
              /\ a[k].i + 1 \in DOMAIN gState.outline.rooms
              /\ k = 1 => a[k].i = 0 /\ a[k].attempt = 1
              /\ k > 1 =>
                    \/ /\ a[k].i = a[k - 1].i
                       /\ a[k].attempt = a[k - 1].attempt + 1
                       /\ ~Passed(k - 1)
                    \/ /\ a[k].i = a[k - 1].i + 1
                       /\ a[k].attempt = 1
                       /\ Passed(k - 1) \/ a[k - 1].attempt = 3
        /\ gPc = "done" =>
              /\ Len(a) > 0
              /\ a[Len(a)].i + 1 = Len(gState.outline.rooms)
              /\ Passed(Len(a)) \/ a[Len(a)].attempt = 3

\* the verdict that has just arrived is a failure
FailedNow == Len(gLog') > Len(gLog) /\ gLog'[Len(gLog) + 1].msg = "failed"

RoomInProgress(i) == gPc \in {"mask", "inpaint", "validate"} /\ gI = i

\* C28: the rooms are painted in outline order, each attempted between 1 and
\* 3 times; attempts stop at the first candidate that passes; a candidate
\* failing on attempt 1 or 2 is discarded and the canvas stays as it was; a
\* candidate failing on attempt 3 is accepted; a failed validation never
\* makes the call throw, and a room in progress always gives way to the next
\* room or to the return, unless an awaited call rejects.
C28_RoomsPaintedInOrder ==
    /\ [](gPc \notin {"off", "call", "failed"} => AttemptsInOrder)
    /\ [][(gPc = "validate" /\ FailedNow) =>
            /\ gPc' # "failed"
            /\ IF gAttempt < 3
               THEN gImage' = gImage /\ gI' = gI /\ gAttempt' = gAttempt + 1 /\ gPc' = "mask"
               ELSE gImage' = gCandidate /\ gI' = gI + 1]_vars
    /\ [][(gPc = "validate" /\ gPc' # "failed" /\ ~FailedNow) =>
            gImage' = gCandidate /\ gI' = gI + 1]_vars
    /\ [](gPc = "done" => gState.imageBuffer = gImage)
    /\ \A i \in 0..(MaxRooms - 1) :
          RoomInProgress(i) ~> (gI > i \/ gPc = "failed")

\* two rooms painted: the first accepted on its failed third attempt, the
\* second on its second attempt after a discarded first
C28_Witness ==
    /\ gPc = "done"
    /\ Len(gState.outline.rooms) = 2
    /\ gState.imageBuffer = <<[room |-> gState.outline.rooms[1].id, attempt |-> 3],
                              [room |-> gState.outline.rooms[2].id, attempt |-> 2]>>
    /\ \E k \in DOMAIN gLog : gLog[k] = LogLine("accepting", 0, 3)
    /\ \E k \in DOMAIN gLog : gLog[k] = LogLine("failed", 1, 1)

-----------------------------------------------------------------------------
(* The order of the compilation, checked under Spec *)

KindRank(el) ==
    CASE el.tag = "rect" -> 1
      [] el.tag = "circle" -> 2
      [] el.tag = "ellipse" -> 3
      [] el.tag = "polygon" -> 4
      [] el.tag = "path" -> 5

\* the positions in the document of the shape elements
ShapePositions(r) ==
    { i \in DOMAIN input[r].svg.children :
        input[r].svg.children[i].tag \in {"rect", "circle", "ellipse", "polygon", "path"} }

\* the shape at position i comes before the one at position j when the
\* shapes are grouped by kind and each group is kept in document order
GroupedBefore(r, i, j) ==
    LET ch == input[r].svg.children
    IN  \/ KindRank(ch[i]) < KindRank(ch[j])
        \/ KindRank(ch[i]) = KindRank(ch[j]) /\ i < j

\* the shapes of the document in that order
Grouped(r) ==
    LET ch == input[r].svg.children
        at(k) == CHOOSE i \in ShapePositions(r) :
                    Cardinality({ j \in ShapePositions(r) : GroupedBefore(r, j, i) }) = k - 1
    IN  [k \in 1..Cardinality(ShapePositions(r)) |-> ch[at(k)]]

\* of a list of shapes, those with an area, and among them those that take
\* their metadata by position
SoundOf(shapes) == SelectSeq(shapes, Sound)
ByPosition(r, shapes) == SelectSeq(shapes, LAMBDA el : ~HasIdMatch(r, el))

LightSpot(r, el) ==
    LET xf == TransformOf(input[r])
    IN  << RAdd(RMul(CentroidOf(el)[1], Q(xf.scaleX)), Q(xf.offsetX)),
           RAdd(RMul(CentroidOf(el)[2], Q(xf.scaleY)), Q(xf.offsetY)) >>

\* C29: the shapes are visited grouped by kind (rectangles, circles,
\* ellipses, polygons, paths), each group in document order; the k-th shape
\* of that order to take its metadata by position takes the k-th entry, and
\* the lights, the journal entries and the wall sub-segments are appended to
\* their arrays in that order.
C29_GroupedByKind ==
    /\ [](\A r \in Runs :
            Compiling(r) =>
              \E g \in {Grouped(r)} :
              \E seen \in {SoundOf(SubSeq(g, 1, ei[r] - 1))} :
                LET rooms == input[r].outline.rooms
                    taken == Len(ByPosition(r, seen))
                IN  /\ ei[r] - 1 <= Len(g)
                    /\ pc[r] \in {"rects", "circles", "ellipses", "polygons", "paths"}
                          => LoopOf(g[ei[r]]) = pc[r]
                    /\ Len(lightsData[r]) = Len(seen)
                    /\ roomIndex[r] = IF taken < Len(rooms) THEN taken ELSE Len(rooms))
    /\ [][\A r \in Runs :
            ShapeStep(r) =>
              \E el \in {Grouped(r)[ei[r]]} :
                LET rooms == input[r].outline.rooms
                IN  /\ SubSeq(wallsData'[r], 1, Len(wallsData[r])) = wallsData[r]
                    /\ SubSeq(lightsData'[r], 1, Len(lightsData[r])) = lightsData[r]
                    /\ SubSeq(journalEntries'[r], 1, Len(journalEntries[r])) = journalEntries[r]
                    /\ Len(journalEntries'[r]) \in {Len(journalEntries[r]), Len(journalEntries[r]) + 1}
                    /\ Len(lightsData'[r]) = Len(lightsData[r]) + (IF Sound(el) THEN 1 ELSE 0)
                    /\ Sound(el) =>
                          <<Last(lightsData'[r]).x, Last(lightsData'[r]).y>> = LightSpot(r, el)
                    /\ Len(journalEntries'[r]) > Len(journalEntries[r])
                          => /\ Sound(el)
                             /\ Last(journalEntries'[r]).c
                                  = <<Last(lightsData'[r]).x, Last(lightsData'[r]).y>>
                    /\ ~Sound(el) => wallsData'[r] = wallsData[r]
                    /\ (Sound(el) /\ ~HasIdMatch(r, el) /\ roomIndex[r] < Len(rooms))
                          => /\ Len(journalEntries'[r]) = Len(journalEntries[r]) + 1
                             /\ Last(journalEntries'[r]).name = rooms[roomIndex[r] + 1].name]_vars

\* a document with a path before a circle and two metadata entries: the
\* circle was visited first and took the first entry, the path the second
C29_Witness ==
    /\ pc[1] = "done"
    /\ Len(input[1].svg.children) = 3
    /\ input[1].svg.children[2].tag = "path"
    /\ input[1].svg.children[3].tag = "circle"
    /\ Len(input[1].outline.rooms) = 2
    /\ Len(lightsData[1]) = 2
    /\ Len(journalEntries[1]) = 2
    /\ journalEntries[1][1].name = input[1].outline.rooms[1].name
    /\ journalEntries[1][1].c = LightSpot(1, input[1].svg.children[3])
    /\ journalEntries[1][2].name = input[1].outline.rooms[2].name
    /\ journalEntries[1][2].c = LightSpot(1, input[1].svg.children[2])

-----------------------------------------------------------------------------
(* The splitter and the order of its doors, checked under SplitSpec *)

SegSet(segs) == { segs[k] : k \in DOMAIN segs }

\* the door list in another order
Reordered(doors) ==
    { [k \in DOMAIN doors |-> doors[p[k]]] : p \in Permutations(DOMAIN doors) }

\* the door drawn from its other end
Flipped(door) == [door EXCEPT !.c = <<door.c[3], door.c[4], door.c[1], door.c[2]>>]

\* the door list with some of its doors drawn from their other end
Redrawn(doors) ==
    { [k \in DOMAIN doors |-> IF k \in F THEN Flipped(doors[k]) ELSE doors[k]] :
        F \in SUBSET DOMAIN doors }

\* the sub-segments are the same set whatever the order of the doors
SameForAnyOrder ==
    SplitReturned =>
        \A ds \in Reordered(sDoors) :
            SegSet(SplitWallForDoors(sWall, ds, Tol)) = SegSet(sResult)

\* the sub-segments are the same set whichever end each door is drawn from
SameForAnyDirection ==
    SplitReturned =>
        \A ds \in Redrawn(sDoors) :
            SegSet(SplitWallForDoors(sWall, ds, Tol)) = SegSet(sResult)

\* C30: the set of sub-segments returned for a wall depends neither on the
\* order of the doors in the list nor on the end each door is drawn from, and
\* the call leaves the wall and the door list as they were.
C30_OrderAndDirectionFree ==
    /\ [](SameForAnyOrder /\ SameForAnyDirection)
    /\ [][sWall' = sWall /\ sDoors' = sDoors]_vars

=============================================================================
